---- MODULE Spec2Model ----
(***************************************************************************)
(* A model of the DHT friend maintenance passes (dht_friend.rs) and of the *)
(* PingSender queue (ping_sender.rs) of the tox DHT server, of the accept  *)
(* loop and the client sessions of the TCP server (tcp_server.rs), and of  *)
(* the parsers and serializers of the DHT, onion and TCP packets.          *)
(*                                                                         *)
(* Public keys are natural numbers; the XOR metric is computed bit by bit. *)
(* Time is a natural number (an Instant), advanced by the Tick action.     *)
(***************************************************************************)
EXTENDS Integers, Sequences, FiniteSets, TLC

\* ------------------------------------------------------------------ bounds

\* the clock stops advancing at MaxTime
MaxTime == 1
\* number of request ids that may be pending at the same time
MaxIds == 2
\* the same bound where full buckets are drained
MaxBucketIds == 10
\* number of sends of one call that may fail where full buckets are drained
MaxFailed == 1
\* elsewhere every send of a call may fail: no call creates more sends
MaxSends == 8

\* --------------------------------------------------------------- constants

\* "Maximum bootstrap_times is 5"
MAX_BOOTSTRAP_TIMES == 5
\* "PingRequest is sent only for maximum 8 nodes in Bucket"
BUCKET_DEFAULT_SIZE == 8

\* marks an absent ping_map entry / an absent value
None == [none |-> TRUE]

\* ------------------------------------------------------- distance, buckets

RECURSIVE Xor(_, _)
\* PublicKey XOR: the distance metric of the k-buckets
Xor(a, b) ==
    IF a = 0 /\ b = 0 THEN 0
    ELSE (((a % 2) + (b % 2)) % 2) + (2 * Xor(a \div 2, b \div 2))

\* pk1 is strictly closer to base than pk2
Closer(base, pk1, pk2) == Xor(base, pk1) < Xor(base, pk2)

\* the pks held by a bucket (a sequence of PackedNode)
BucketPks(b) == {b[i].pk : i \in 1..Len(b)}

\* Bucket::contains
BucketContains(b, pk) == pk \in BucketPks(b)

\* position at which a node with key pk is inserted to keep b sorted
\* nearest-first to base
InsertPos(b, base, pk) ==
    1 + Cardinality({i \in 1..Len(b) : Closer(base, b[i].pk, pk)})

\* b with node inserted at its sorted position
InsertSorted(b, base, node) ==
    LET p == InsertPos(b, base, node.pk)
    IN  SubSeq(b, 1, p - 1) \o <<node>> \o SubSeq(b, p, Len(b))

\* Bucket::try_add, the boolean it returns
BucketCanAdd(b, base, node) ==
    \/ BucketContains(b, node.pk)
    \/ Len(b) < BUCKET_DEFAULT_SIZE
    \/ Closer(base, node.pk, b[Len(b)].pk)

\* Bucket::try_add, the bucket it leaves
BucketTryAdd(b, base, node) ==
    IF BucketContains(b, node.pk)
    THEN [i \in 1..Len(b) |-> IF b[i].pk = node.pk THEN node ELSE b[i]]
    ELSE IF Len(b) < BUCKET_DEFAULT_SIZE
    THEN InsertSorted(b, base, node)
    ELSE IF Closer(base, node.pk, b[Len(b)].pk)
    THEN InsertSorted(SubSeq(b, 1, Len(b) - 1), base, node)
    ELSE b

\* Kbucket::bucket_index: the bit length of the XOR of own pk and pk
\* (0 when the keys are equal: no bucket)
RECURSIVE BitLen(_)
BitLen(x) == IF x = 0 THEN 0 ELSE 1 + BitLen(x \div 2)

KbucketIndex(own, pk) == BitLen(Xor(own, pk))

\* the nodes of Kbucket kb (a set of nodes) that its bucket of index i holds
KbucketBucket(kb, own, i) == {n \in kb : KbucketIndex(own, n.pk) = i}

\* the node of the non-empty bucket b (a set of nodes) farthest from own
Farthest(b, own) == CHOOSE m \in b : \A o \in b : ~Closer(own, m.pk, o.pk)

\* Kbucket::find_node
KbucketFindNode(kb, pk) ==
    IF \E n \in kb : n.pk = pk THEN CHOOSE n \in kb : n.pk = pk ELSE None

\* Kbucket::can_add: the key has a bucket, and Bucket::try_add on it would
\* return true
KbucketCanAdd(kb, own, node) ==
    LET i == KbucketIndex(own, node.pk)
    IN  /\ i # 0
        /\ \E b \in {KbucketBucket(kb, own, i)} :
              \/ \E n \in b : n.pk = node.pk
              \/ Cardinality(b) < BUCKET_DEFAULT_SIZE
              \/ Closer(own, node.pk, Farthest(b, own).pk)

\* Kbucket::try_add: Bucket::try_add on the bucket of the key
KbucketTryAdd(kb, own, node) ==
    LET i == KbucketIndex(own, node.pk)
        b == KbucketBucket(kb, own, i)
    IN  IF i = 0 THEN kb
        ELSE IF \E n \in b : n.pk = node.pk
        THEN {n \in kb : n.pk # node.pk} \cup {node}
        ELSE IF Cardinality(b) < BUCKET_DEFAULT_SIZE
        THEN kb \cup {node}
        ELSE IF Closer(own, node.pk, Farthest(b, own).pk)
        THEN (kb \ {Farthest(b, own)}) \cup {node}
        ELSE kb

\* ------------------------------------------------------------------- state

VARIABLES
    now,          \* Instant::now()
    config,       \* Server: pk and the timing configuration; max_ids and
                  \* max_failed bound the pending request ids and the
                  \* failing sends of one call
    close_nodes,  \* Server::close_nodes (Kbucket), a set of PackedNode
    ping_map,     \* Server::ping_map: pk -> PingData, None when absent
    friends,      \* Server::friends: a sequence of DhtFriend
    ping_sender,  \* PingSender
    tx,           \* Server::tx: the (packet, address) pairs the last call put
                  \* on the outbound queue (the socket writer drains the
                  \* queue between two calls)
    ret,          \* what the last call did and returned
    rounds,       \* history of the friend maintenance rounds: the time of
                  \* the last round, and for each friend and key the time
                  \* of the friend's last periodic NodesRequest to it
    listener,     \* the accept loop of the TCP server: listener.incoming()
    clients,      \* the TCP server's session of each client
    codec         \* the last call of a parser or serializer

dht_vars == <<config, close_nodes, ping_map, friends, ping_sender, tx, ret,
              rounds>>
tcp_vars == <<listener, clients>>
codec_vars == <<codec>>
vars == <<now, dht_vars, tcp_vars, codec_vars>>

\* a run of the DHT server alone: no TCP listener is bound and no codec is
\* called
TcpServerUnused == listener = None /\ clients = <<>>
CodecUnused == codec = None

\* key universe of the model
OwnPks == {0}
NodePks == {0, 1, 2, 6}
FriendPks == {6}
AllPks == OwnPks \cup NodePks \cup FriendPks
\* Duration arguments and configuration values
Durations == {0, 1}
\* values drawn from random_u32()
Rands == {0, 1, 2}

\* PingData::new
PingDataNew(t) ==
    [last_ping_req_time |-> t, last_resp_time |-> t, ping_ids |-> {}]

\* variant: insert in place of or_insert, an existing entry is replaced
EntryInsert(pm, pk, t) == [pm EXCEPT ![pk] = PingDataNew(t)]

\* ping_map.entry(pk).or_insert_with(PingData::new)
EntryOrInsert(pm, pk, t) ==
    IF pm[pk] = None THEN [pm EXCEPT ![pk] = PingDataNew(t)] ELSE pm

\* the request ids pending in ping_map pm
PendingIds(pm) ==
    UNION {{e[1] : e \in pm[pk].ping_ids} : pk \in {k \in DOMAIN pm : pm[k] # None}}

\* the id the generator draws: a value that no pending request carries
NewPingId(pm) ==
    CHOOSE id \in 1..(Cardinality(PendingIds(pm)) + 1) :
        /\ id \notin PendingIds(pm)
        /\ \A j \in 1..(id - 1) : j \in PendingIds(pm)

\* PingData::insert_new_ping_id on the entry of pk
InsertNewPingId(pm, pk, id, t) ==
    [pm EXCEPT ![pk].ping_ids = @ \cup {<<id, t>>}]

\* variant: the age of the id is not looked at
CheckPingIdAnyAge(client, id, timeout, t) ==
    \E e \in client.ping_ids : e[1] = id

\* PingData::check_ping_id, the boolean it returns
CheckPingId(client, id, timeout, t) ==
    \E e \in client.ping_ids : e[1] = id /\ t - e[2] <= timeout

\* PingData::check_ping_id, the entry it leaves: a matching id is consumed
ConsumePingId(client, id) ==
    [client EXCEPT !.ping_ids = {e \in @ : e[1] # id}]

\* PackedNode::is_bad_node_timed_out
IsBadNodeTimedOut(pm, node, timeout, t) ==
    t - EntryOrInsert(pm, node.pk, t)[node.pk].last_resp_time >= timeout

\* DhtFriend::new. History kept with the friend: the bootstrap_times it was
\* created with, the random-node requests it has emitted, and the keys
\* offered to close_nodes and, since it was last emptied, to bootstrap_nodes
DhtFriendNew(pk, bootstrap_times, t) ==
    [pk |-> pk, close_nodes |-> <<>>, last_nodes_req_time |-> t,
     bootstrap_times |-> bootstrap_times, bootstrap_nodes |-> <<>>,
     created_with |-> bootstrap_times, random_sent |-> 0,
     offered_close |-> {}, offered_bootstrap |-> {}]

\* PingSender::new. History kept with it: the keys offered to
\* nodes_to_send_ping since it was last emptied
PingSenderNew(t) ==
    [last_time_send_ping |-> t, nodes_to_send_ping |-> <<>>, offered |-> {}]

\* a NodesRequest for search_pk with request id, queued for node
NodesRequestPacket(node, search_pk, id, t) ==
    [kind |-> "NodesRequest", node |-> node, search_pk |-> search_pk,
     id |-> id]

\* a PingRequest with request id, queued for node
PingRequestPacket(node, id, t) ==
    [kind |-> "PingRequest", node |-> node, id |-> id]

\* Server::new with its PingSender, before any friend is added
Init ==
    /\ now = 0
    /\ config \in [pk : OwnPks, bad_node_timeout : {1},
                 ping_timeout : Durations, max_ids : {MaxIds},
                 max_failed : {MaxSends}]
    /\ close_nodes = {}
    /\ ping_map = [pk \in AllPks |-> None]
    /\ friends = <<>>
    /\ ping_sender = PingSenderNew(0)
    /\ tx = <<>>
    /\ ret = [op |-> "new"]
    /\ rounds = None
    /\ TcpServerUnused
    /\ CodecUnused

\* ------------------------------------------------------ sending requests
\* A pass threads a context [pm, out, ev]: the ping_map, the send futures
\* created so far, and the lock events so far: a lock taken or released, or
\* a future polled.
Lock(l) == [e |-> "lock", l |-> l]
Unlock(l) == [e |-> "unlock", l |-> l]
Poll(f) == [e |-> "poll", l |-> f]

\* the context at the start of a call
NewContext == [pm |-> ping_map, out |-> <<>>, ev |-> <<>>, err |-> "none"]

\* Server::send_nodes_req(node, search_pk, client): records a new request id
\* in client, the ping_map entry of client_pk, and returns the send future
SendNodesReq(ctx, node, search_pk, client_pk, t) ==
    LET id == NewPingId(ctx.pm)
    IN  [ctx EXCEPT
            !.pm  = InsertNewPingId(@, client_pk, id, t),
            !.out = Append(@, NodesRequestPacket(node, search_pk, id, t))]

\* Server::send_ping_req(node): under the ping_map lock, records a new
\* request id in the ping_map entry of node.pk, created when absent, and
\* returns the send future
SendPingReq(ctx, node, t) ==
    LET id == NewPingId(ctx.pm)
    IN  [ctx EXCEPT
            !.pm  = InsertNewPingId(EntryOrInsert(@, node.pk, t), node.pk, id, t),
            !.out = Append(@, PingRequestPacket(node, id, t)),
            !.ev  = @ \o <<Lock("ping_map"), Unlock("ping_map")>>]

RECURSIVE PingBootstrapNodesFrom(_, _, _, _, _)
\* DhtFriend::ping_bootstrap_nodes: the closure mapped over bootstrap_nodes
\* from index i on
PingBootstrapNodesFrom(ctx, nodes, i, friend_pk, t) ==
    IF i > Len(nodes) THEN ctx
    ELSE LET node == nodes[i]
             c1 == [ctx EXCEPT !.pm = EntryOrInsert(@, node.pk, t)]
         IN  PingBootstrapNodesFrom(
                 SendNodesReq(c1, node, friend_pk, node.pk, t),
                 nodes, i + 1, friend_pk, t)

\* the context with the lock event e appended
Event(ctx, e) == [ctx EXCEPT !.ev = Append(@, e)]

\* variant: the ping_map guard is not dropped when the pass returns
PingBootstrapNodesKeepsLock(ctx, friend, t) ==
    PingBootstrapNodesFrom(Event(ctx, Lock("ping_map")),
                           friend.bootstrap_nodes, 1, friend.pk, t)

\* DhtFriend::ping_bootstrap_nodes: locks ping_map, creates the send futures
\* and drops the guard on return
PingBootstrapNodes(ctx, friend, t) ==
    Event(PingBootstrapNodesFrom(Event(ctx, Lock("ping_map")),
                                 friend.bootstrap_nodes, 1, friend.pk, t),
          Unlock("ping_map"))

RECURSIVE PingAndGetCloseNodesFrom(_, _, _, _, _, _)
\* DhtFriend::ping_and_get_close_nodes: the closure mapped over close_nodes
\* from index i on
PingAndGetCloseNodesFrom(ctx, nodes, i, friend_pk, ping_interval, t) ==
    IF i > Len(nodes) THEN ctx
    ELSE LET node == nodes[i]
             c1 == [ctx EXCEPT !.pm = EntryOrInsert(@, node.pk, t)]
             c2 == [c1 EXCEPT !.pm[node.pk].last_ping_req_time = t]
         IN  PingAndGetCloseNodesFrom(
                 IF t - c1.pm[node.pk].last_ping_req_time >= ping_interval
                 THEN SendNodesReq(c2, node, friend_pk, node.pk, t)
                 ELSE c1,
                 nodes, i + 1, friend_pk, ping_interval, t)

\* variant: last_ping_req_time is not compared with ping_interval, every
\* close node gets a request
PingAndGetCloseNodesAlways(ctx, friend, ping_interval, t) ==
    Event(PingAndGetCloseNodesFrom(Event(ctx, Lock("ping_map")),
                                   friend.close_nodes, 1, friend.pk, 0, t),
          Unlock("ping_map"))

\* DhtFriend::ping_and_get_close_nodes
PingAndGetCloseNodes(ctx, friend, ping_interval, t) ==
    Event(PingAndGetCloseNodesFrom(Event(ctx, Lock("ping_map")),
                                   friend.close_nodes, 1, friend.pk,
                                   ping_interval, t),
          Unlock("ping_map"))

\* variant: the good-node filter looks the entries up and creates none
CreateNoEntries(pm, nodes, i, t) == pm

RECURSIVE CreateEntries(_, _, _, _)
\* send_nodes_req_random: the good-node filter creates the ping_map entry
\* of every close node
CreateEntries(pm, nodes, i, t) ==
    IF i > Len(nodes) THEN pm
    ELSE CreateEntries(EntryOrInsert(pm, nodes[i].pk, t), nodes, i + 1, t)

\* variant: the close nodes are not filtered by last_resp_time
GoodNodesUnfiltered(pm, nodes, bad_node_timeout, t) == nodes

\* send_nodes_req_random: good_nodes, the close nodes that answered less
\* than bad_node_timeout ago; the filter tests the client that
\* entry(node.pk).or_insert_with(PingData::new) returns
GoodNodes(pm, nodes, bad_node_timeout, t) ==
    SelectSeq(nodes,
              LAMBDA n : t - EntryOrInsert(pm, n.pk, t)[n.pk].last_resp_time
                             < bad_node_timeout)

\* variant: the second draw moves the index up, towards the far nodes
RandomNodeUpward(num_nodes, rand1, rand2) ==
    LET r == rand1 % num_nodes
    IN  IF r # num_nodes - 1 THEN r + 1 + (rand2 % (num_nodes - 1 - r)) ELSE r

\* send_nodes_req_random: the index of the node picked among num_nodes good
\* nodes from two draws of random_u32()
RandomNode(num_nodes, rand1, rand2) ==
    LET r == rand1 % num_nodes
    IN  IF r # 0 THEN r - (rand2 % (r + 1)) ELSE r

\* variant: bootstrap_times is not compared with MAX_BOOTSTRAP_TIMES
RandomReqDueNoCap(friend, good_nodes, nodes_req_interval, t) ==
    /\ good_nodes # <<>>
    /\ t - friend.last_nodes_req_time >= nodes_req_interval

\* send_nodes_req_random: whether the pass sends a request
RandomReqDue(friend, good_nodes, nodes_req_interval, t) ==
    /\ good_nodes # <<>>
    /\ t - friend.last_nodes_req_time >= nodes_req_interval
    /\ friend.bootstrap_times < MAX_BOOTSTRAP_TIMES

\* send_nodes_req_random: the error of the future returned when
\* ping_map.get_mut(&random_node.pk) is None
ClientNotFound == "Can't find client in ping_map"

\* DhtFriend::send_nodes_req_random, the context it leaves; the node picked
\* is good_nodes[random_node], counted from 0
SendNodesReqRandom(ctx, friend, bad_node_timeout, nodes_req_interval, rand1, rand2, t) ==
    LET pm1  == CreateEntries(ctx.pm, friend.close_nodes, 1, t)
        good == GoodNodes(pm1, friend.close_nodes, bad_node_timeout, t)
        c1   == [ctx EXCEPT !.pm = pm1, !.ev = Append(@, Lock("ping_map"))]
    IN  Event(IF RandomReqDue(friend, good, nodes_req_interval, t)
              THEN LET node == good[RandomNode(Len(good), rand1, rand2) + 1]
                   IN  IF pm1[node.pk] # None
                       THEN SendNodesReq(c1, node, friend.pk, node.pk, t)
                       ELSE [c1 EXCEPT !.err = ClientNotFound]
              ELSE c1,
              Unlock("ping_map"))

\* DhtFriend::send_nodes_req_random, the friend it leaves when the client
\* of the node picked is found
FriendAfterRandom(pm, friend, bad_node_timeout, nodes_req_interval, t) ==
    LET pm1  == CreateEntries(pm, friend.close_nodes, 1, t)
        good == GoodNodes(pm1, friend.close_nodes, bad_node_timeout, t)
    IN  IF RandomReqDue(friend, good, nodes_req_interval, t)
        THEN [friend EXCEPT !.bootstrap_times = @ + 1,
                            !.last_nodes_req_time = t]
        ELSE friend

\* variant: bootstrap_nodes is read and not swapped out
BootstrapNodesLeft(friend) == friend

\* ping_bootstrap_nodes: the friend after mem::swap has taken its
\* bootstrap_nodes and left an empty bucket
BootstrapNodesTaken(friend) ==
    [friend EXCEPT !.bootstrap_nodes = <<>>, !.offered_bootstrap = {}]

\* the sets of send futures of out that may fail or time out
Failures(out) ==
    {F \in SUBSET (1..Len(out)) : Cardinality(F) <= config.max_failed}

\* the packets of the send futures out that complete, in order; failed holds
\* the indexes of the futures that fail or time out
Delivered(out, failed) ==
    LET F[i \in 0..Len(out)] ==
            IF i = 0 THEN <<>>
            ELSE IF i \notin failed THEN Append(F[i - 1], out[i]) ELSE F[i - 1]
    IN  F[Len(out)]

\* ---------------------------------------------------------------- DhtFriend

\* DhtFriend::send_nodes_req_packets: what join3 of the three passes resolves
\* to. The two streams map every send result to Ok; the future of
\* send_nodes_req_random is the send itself (random_at is its index in the
\* futures of the call, 0 when the pass sent nothing)
Join3Result(random_at, failed, err) ==
    IF err # "none" THEN "Err"
    ELSE IF random_at # 0 /\ random_at \in failed THEN "Err" ELSE "Ok"

\* DhtFriend::send_nodes_req_packets: the lock events of the call; after the
\* three passes have returned, join3 polls their futures
Join3Polled(ev) ==
    ev \o <<Poll("ping_bootstrap_nodes"), Poll("ping_and_get_close_nodes"),
            Poll("send_nodes_req_random")>>

\* DhtFriend::send_nodes_req_packets on friends[fi], driven to completion
SendNodesReqPackets(fi, ping_interval, nodes_req_interval, bad_node_timeout) ==
    /\ UNCHANGED <<tcp_vars, codec_vars, rounds>>
    /\ \E c2 \in {PingAndGetCloseNodes(
                     PingBootstrapNodes(NewContext, friends[fi], now),
                     BootstrapNodesTaken(friends[fi]),
                     ping_interval, now)} :
       \E f3 \in {FriendAfterRandom(c2.pm,
                     BootstrapNodesTaken(friends[fi]),
                     bad_node_timeout, nodes_req_interval, now)} :
       \E due \in {f3.bootstrap_times # friends[fi].bootstrap_times} :
       \E r1 \in IF due THEN Rands ELSE {0}, r2 \in IF due THEN Rands ELSE {0} :
       \E c3 \in {SendNodesReqRandom(c2,
                     BootstrapNodesTaken(friends[fi]),
                     bad_node_timeout, nodes_req_interval, r1, r2, now)} :
       \E random_at \in {IF due /\ c3.err = "none" THEN Len(c3.out) ELSE 0} :
          /\ PendingIds(c3.pm) \subseteq 1..config.max_ids
          /\ \E failed \in Failures(c3.out) :
               /\ ping_map' = c3.pm
               /\ tx' = Delivered(c3.out, failed)
               /\ friends' = [friends EXCEPT ![fi] =
                    IF c3.err = "none"
                    THEN [f3 EXCEPT !.random_sent = IF due THEN @ + 1 ELSE @]
                    ELSE BootstrapNodesTaken(friends[fi])]
               /\ ret' = [op |-> "send_nodes_req_packets",
                          result |-> Join3Result(random_at, failed, c3.err),
                          locks |-> Join3Polled(c3.ev)]
    /\ UNCHANGED <<now, config, close_nodes, ping_sender>>

\* variant: add_to_close also creates the ping_map entry of the node
AddToCloseWithEntry(fi, node) ==
    /\ UNCHANGED <<tcp_vars, codec_vars, rounds>>
    /\ LET friend == friends[fi]
       IN  /\ friends' = [friends EXCEPT ![fi] =
                  [friend EXCEPT
                      !.bootstrap_nodes = BucketTryAdd(@, friend.pk, node),
                      !.close_nodes = BucketTryAdd(@, friend.pk, node),
                      !.offered_bootstrap = @ \cup {node.pk},
                      !.offered_close = @ \cup {node.pk}]]
           /\ ping_map' = EntryOrInsert(ping_map, node.pk, now)
           /\ ret' = [op |-> "add_to_close", result |-> "Ok"]
           /\ tx' = <<>>
           /\ UNCHANGED <<now, config, close_nodes, ping_sender>>

\* variant: the buckets are ordered by distance to the server's pk
AddToCloseOwnBase(fi, node) ==
    /\ UNCHANGED <<tcp_vars, codec_vars, rounds>>
    /\ LET friend == friends[fi]
       IN  /\ friends' = [friends EXCEPT ![fi] =
                  [friend EXCEPT
                      !.bootstrap_nodes = BucketTryAdd(@, config.pk, node),
                      !.close_nodes = BucketTryAdd(@, config.pk, node),
                      !.offered_bootstrap = @ \cup {node.pk},
                      !.offered_close = @ \cup {node.pk}]]
           /\ ret' = [op |-> "add_to_close", result |-> "Ok"]
           /\ tx' = <<>>
           /\ UNCHANGED <<now, config, close_nodes, ping_map, ping_sender>>

\* DhtFriend::add_to_close on friends[fi]
AddToClose(fi, node) ==
    /\ UNCHANGED <<tcp_vars, codec_vars, rounds>>
    /\ LET friend == friends[fi]
       IN  /\ friends' = [friends EXCEPT ![fi] =
                  [friend EXCEPT
                      !.bootstrap_nodes = BucketTryAdd(@, friend.pk, node),
                      !.close_nodes = BucketTryAdd(@, friend.pk, node),
                      !.offered_bootstrap = @ \cup {node.pk},
                      !.offered_close = @ \cup {node.pk}]]
           /\ ret' = [op |-> "add_to_close", result |-> "Ok"]
           /\ tx' = <<>>
           /\ UNCHANGED <<now, config, close_nodes, ping_map, ping_sender>>

\* --------------------------------------------------------------- PingSender

\* PingSender::is_friend
IsFriend(node) == \E i \in 1..Len(friends) : friends[i].pk = node.pk

\* PingSender::is_in_close_list
IsInCloseList(node) ==
    \E i \in 1..Len(friends) : BucketContains(friends[i].close_nodes, node.pk)

\* variant: the queued node is compared with node, address included
IsInPingListEq(node) ==
    \E i \in 1..Len(ping_sender.nodes_to_send_ping) :
        ping_sender.nodes_to_send_ping[i] = node

\* PingSender::is_in_ping_list
IsInPingList(node) ==
    BucketContains(ping_sender.nodes_to_send_ping, node.pk)

\* variant: the time of the last flush is not looked at
CanSendPingsAlways(iterate_interval) == TRUE

\* PingSender::can_send_pings
CanSendPings(iterate_interval) ==
    now - ping_sender.last_time_send_ping >= iterate_interval

\* PingSender::try_add: the first two early returns (the node is in the close
\* list and not timed out, or cannot be added to the close list)
TryAddRefusedByCloseList(node) ==
    LET found == KbucketFindNode(close_nodes, node.pk)
    IN  \/ /\ found # None
           /\ ~IsBadNodeTimedOut(ping_map, found, config.bad_node_timeout, now)
        \/ ~KbucketCanAdd(close_nodes, config.pk, node)

\* PingSender::try_add: the node is a friend that is in no friend's close list
TryAddIsNewFriend(node) == IsFriend(node) /\ ~IsInCloseList(node)

\* PingSender::try_add: the send futures the call polls. The future that
\* send_ping_req returns for a new friend is dropped without being polled
TryAddPolled(out) == <<>>

\* PingSender::try_add: the lock events of the call. The read guard of
\* close_nodes lives until the call returns; is_bad_node_timed_out and
\* send_ping_req lock ping_map, is_friend and is_in_close_list lock friends
TryAddLocks(node) ==
    LET found   == KbucketFindNode(close_nodes, node.pk)
        pm_lock == <<Lock("ping_map"), Unlock("ping_map")>>
        fr_lock == <<Lock("friends"), Unlock("friends")>>
        e1 == <<Lock("close_nodes")>> \o (IF found # None THEN pm_lock ELSE <<>>)
        e2 == e1 \o fr_lock \o (IF IsFriend(node) THEN fr_lock ELSE <<>>)
    IN  IF TryAddRefusedByCloseList(node)
        THEN Append(e1, Unlock("close_nodes"))
        ELSE IF TryAddIsNewFriend(node)
        THEN Append(e2 \o pm_lock, Unlock("close_nodes"))
        ELSE Append(e2, Unlock("close_nodes"))

\* PingSender::try_add
TryAdd(node) ==
        /\ UNCHANGED <<tcp_vars, codec_vars, rounds>>
        /\ IF TryAddRefusedByCloseList(node)
           THEN /\ ret' = [op |-> "try_add", node |-> node, result |-> FALSE,
                            locks |-> TryAddLocks(node)]
                /\ tx' = <<>>
                /\ UNCHANGED <<now, config, close_nodes, ping_map, friends, ping_sender>>
           ELSE IF TryAddIsNewFriend(node)
           THEN \E c1 \in {SendPingReq(NewContext, node, now)} :
                /\ PendingIds(c1.pm) \subseteq 1..config.max_ids
                /\ ping_map' = c1.pm
                /\ tx' = TryAddPolled(c1.out)
                /\ ret' = [op |-> "try_add", node |-> node, result |-> FALSE,
                            locks |-> TryAddLocks(node)]
                /\ UNCHANGED <<now, config, close_nodes, friends, ping_sender>>
           ELSE IF IsInPingList(node)
           THEN /\ ret' = [op |-> "try_add", node |-> node, result |-> FALSE,
                            locks |-> TryAddLocks(node)]
                /\ tx' = <<>>
                /\ UNCHANGED <<now, config, close_nodes, ping_map, friends, ping_sender>>
           ELSE /\ ping_sender' = [ping_sender EXCEPT
                                      !.nodes_to_send_ping =
                                          BucketTryAdd(@, config.pk, node),
                                      !.offered = @ \cup {node.pk}]
                /\ ret' = [op |-> "try_add", node |-> node, result |->
                              BucketCanAdd(ping_sender.nodes_to_send_ping,
                                           config.pk, node),
                            locks |-> TryAddLocks(node)]
                /\ tx' = <<>>
                /\ UNCHANGED <<now, config, close_nodes, ping_map, friends>>

RECURSIVE SendPingReqFrom(_, _, _, _)
\* PingSender::send_pings: the closure mapped over the swapped-out queue
SendPingReqFrom(ctx, nodes, i, t) ==
    IF i > Len(nodes) THEN ctx
    ELSE SendPingReqFrom(SendPingReq(ctx, nodes[i], t), nodes, i + 1, t)

\* PingSender::send_pings, driven to completion
SendPings(iterate_interval) ==
    /\ UNCHANGED <<tcp_vars, codec_vars, rounds>>
    /\ IF ~CanSendPings(iterate_interval)
       THEN /\ ret' = [op |-> "send_pings", result |-> "Ok"]
            /\ tx' = <<>>
            /\ UNCHANGED <<now, config, close_nodes, ping_map, friends, ping_sender>>
       ELSE \E c1 \in {SendPingReqFrom(NewContext,
                                       ping_sender.nodes_to_send_ping, 1, now)} :
               /\ PendingIds(c1.pm) \subseteq 1..config.max_ids
               /\ \E failed \in Failures(c1.out) :
                    tx' = Delivered(c1.out, failed)
               /\ ping_sender' = PingSenderNew(now)
               /\ ping_map' = c1.pm
               /\ ret' = [op |-> "send_pings", result |-> "Ok"]
               /\ UNCHANGED <<now, config, close_nodes, friends>>

\* ------------------------------------------------------------------- Server

\* bound: number of friends the server is given
MaxFriends == 1

\* Server::add_friend(DhtFriend::new(pk, bootstrap_times))
AddFriend(pk, bootstrap_times) ==
    /\ UNCHANGED <<tcp_vars, codec_vars, rounds>>
    /\ Len(friends) < MaxFriends
    /\ \A i \in 1..Len(friends) : friends[i].pk # pk
    /\ friends' = Append(friends, DhtFriendNew(pk, bootstrap_times, now))
    /\ ret' = [op |-> "add_friend", result |-> "Ok"]
    /\ tx' = <<>>
    /\ UNCHANGED <<now, config, close_nodes, ping_map, ping_sender>>

\* whether a response from node carrying id passes the id check
ResponseAccepted(node, id) ==
    /\ ping_map[node.pk] # None
    /\ CheckPingId(ping_map[node.pk], id, config.ping_timeout, now)

\* the server handles a NodesResponse or PingResponse from node carrying id
HandleResponse(node, id) ==
    /\ UNCHANGED <<tcp_vars, codec_vars, rounds>>
    /\ IF ResponseAccepted(node, id)
       THEN /\ ping_map' = [ping_map EXCEPT ![node.pk] =
                   [ConsumePingId(@, id) EXCEPT !.last_resp_time = now]]
            /\ close_nodes' = KbucketTryAdd(close_nodes, config.pk, node)
            /\ ret' = [op |-> "handle_response", result |-> TRUE,
                       pk |-> node.pk, id |-> id]
       ELSE /\ ret' = [op |-> "handle_response", result |-> FALSE,
                       pk |-> node.pk, id |-> id]
            /\ UNCHANGED <<ping_map, close_nodes>>
    /\ tx' = <<>>
    /\ UNCHANGED <<now, config, friends, ping_sender>>

\* the maintenance tick drops the request ids older than ping_timeout
ExpirePingIds ==
    /\ UNCHANGED <<tcp_vars, codec_vars, rounds>>
    /\ ping_map' = [pk \in DOMAIN ping_map |->
           IF ping_map[pk] = None THEN None
           ELSE [ping_map[pk] EXCEPT !.ping_ids =
                    {e \in @ : now - e[2] <= config.ping_timeout}]]
    /\ ping_map' # ping_map
    /\ ret' = [op |-> "expire", result |-> "Ok"]
    /\ tx' = <<>>
    /\ UNCHANGED <<now, config, close_nodes, friends, ping_sender>>

\* the clock advances
Tick ==
    /\ UNCHANGED <<tcp_vars, codec_vars, rounds>>
    /\ now < MaxTime
    /\ now' = now + 1
    /\ UNCHANGED <<config, close_nodes, ping_map, friends, ping_sender, tx,
                   ret>>

\* --------------------------------------------------------- specifications

\* the nodes offered in the combined model
SpecNodes == {[pk |-> 1, saddr |-> "a1"]}

\* friend maintenance and PingSender together
Next ==
    \/ \E pk \in FriendPks : AddFriend(pk, MAX_BOOTSTRAP_TIMES - 1)
    \/ \E fi \in 1..Len(friends), node \in SpecNodes : AddToClose(fi, node)
    \/ \E fi \in 1..Len(friends), pi \in Durations, ni \in Durations,
          bt \in Durations : SendNodesReqPackets(fi, pi, ni, bt)
    \/ \E node \in SpecNodes : TryAdd(node)
    \/ \E ii \in Durations : SendPings(ii)
    \/ \E node \in SpecNodes, id \in 0..MaxIds : HandleResponse(node, id)
    \/ ExpirePingIds
    \/ Tick

Spec == Init /\ [][Next]_vars

\* a server with one friend; bootstrap_times arguments of DhtFriend::new
BootstrapTimes == {3, 6}

InitFriend ==
    /\ now = 0
    /\ config \in [pk : OwnPks, bad_node_timeout : {1},
                 ping_timeout : {0}, max_ids : {MaxIds},
                 max_failed : {MaxSends}]
    /\ close_nodes = {}
    /\ ping_map = [pk \in AllPks |-> None]
    /\ \E pk \in FriendPks, b \in BootstrapTimes :
          friends = <<DhtFriendNew(pk, b, 0)>>
    /\ ping_sender = PingSenderNew(0)
    /\ tx = <<>>
    /\ ret = [op |-> "new"]
    /\ rounds = None
    /\ TcpServerUnused
    /\ CodecUnused

\* the nodes offered to the friend
FriendNodes == {[pk |-> 1, saddr |-> "a1"], [pk |-> 2, saddr |-> "a2"]}

\* friend maintenance alone
NextFriend ==
    \/ \E node \in FriendNodes : AddToClose(1, node)
    \/ \E pi \in Durations, ni \in Durations, bt \in Durations :
          SendNodesReqPackets(1, pi, ni, bt)
    \/ \E node \in FriendNodes, id \in 0..MaxIds : HandleResponse(node, id)
    \/ ExpirePingIds
    \/ Tick

SpecFriend == InitFriend /\ [][NextFriend]_vars

\* the bucket of index 5 of the server's close_nodes, full: the eight keys
\* of that index that are nearest to the server's pk
FarPks == 16..23
FarNodes == {[pk |-> k, saddr |-> "far"] : k \in FarPks}
\* a key of the same index that is farther than all of them
FartherPks == {24}

\* the nodes offered to the PingSender: the server itself, pk 1 seen at two
\* addresses, the friend, and a node that the full bucket has no room for
PingNodes ==
    {[pk |-> 0, saddr |-> "a0"], [pk |-> 1, saddr |-> "a1"],
     [pk |-> 1, saddr |-> "b1"], [pk |-> 6, saddr |-> "a6"],
     [pk |-> 24, saddr |-> "a24"]}

\* a server whose close_nodes has a full bucket of nodes that answered at
\* time 0, and its PingSender
InitPing ==
    /\ now = 0
    /\ config \in [pk : OwnPks, bad_node_timeout : {1},
                 ping_timeout : {0}, max_ids : {MaxIds},
                 max_failed : {MaxSends}]
    /\ close_nodes = FarNodes
    /\ ping_map = [pk \in AllPks \cup FarPks \cup FartherPks |->
                      IF pk \in FarPks THEN PingDataNew(0) ELSE None]
    /\ friends = <<>>
    /\ ping_sender = PingSenderNew(0)
    /\ tx = <<>>
    /\ ret = [op |-> "new"]
    /\ rounds = None
    /\ TcpServerUnused
    /\ CodecUnused

\* the PingSender with a server that gets a friend
NextPing ==
    \/ \E pk \in FriendPks : AddFriend(pk, MAX_BOOTSTRAP_TIMES)
    \/ \E fi \in 1..Len(friends), node \in {n \in PingNodes : n.pk \in FriendPks} :
          AddToClose(fi, node)
    \/ \E node \in PingNodes : TryAdd(node)
    \/ \E ii \in Durations : SendPings(ii)
    \/ \E node \in {n \in PingNodes : n.saddr = "a1"}, id \in 1..MaxIds :
          HandleResponse(node, id)
    \/ ExpirePingIds
    \/ Tick

SpecPing == InitPing /\ [][NextPing]_vars

\* eight keys that the buckets hold from the start, and two keys offered
\* later: 32 is farther from both bases than the eight; 8 is nearer to the
\* server's pk than the eight, and nearer to the friend's pk than some of
\* them
BucketHeldPks == (9..15) \cup {17}
BucketOfferedPks == {8, 32}
BucketNode(pk) == [pk |-> pk, saddr |-> "a"]
\* the nodes offered later: the two keys, and a key that the buckets hold,
\* seen at another address
BucketOffers ==
    {BucketNode(pk) : pk \in BucketOfferedPks} \cup {[pk |-> 9, saddr |-> "b"]}

RECURSIVE Offer(_, _, _)
\* the bucket that try_add leaves when the nodes of the keys pks are offered
\* to bucket b, one after the other
Offer(b, base, pks) ==
    IF pks = {} THEN b
    ELSE LET pk == CHOOSE k \in pks : TRUE
         IN  Offer(BucketTryAdd(b, base, BucketNode(pk)), base, pks \ {pk})

\* a server whose PingSender queue and whose friend's buckets have been
\* offered the eight keys; no request has been sent yet
InitBucket ==
    /\ now = 0
    /\ config \in [pk : OwnPks, bad_node_timeout : {1}, ping_timeout : {0},
                   max_ids : {MaxBucketIds}, max_failed : {MaxFailed}]
    /\ close_nodes = {}
    /\ ping_map = [pk \in AllPks \cup BucketHeldPks \cup BucketOfferedPks |-> None]
    /\ \E pk \in FriendPks :
          friends = <<[DhtFriendNew(pk, MAX_BOOTSTRAP_TIMES, 0) EXCEPT
                          !.close_nodes = Offer(<<>>, pk, BucketHeldPks),
                          !.bootstrap_nodes = Offer(<<>>, pk, BucketHeldPks),
                          !.offered_close = BucketHeldPks,
                          !.offered_bootstrap = BucketHeldPks]>>
    /\ ping_sender = [PingSenderNew(0) EXCEPT
                         !.nodes_to_send_ping = Offer(<<>>, 0, BucketHeldPks),
                         !.offered = BucketHeldPks]
    /\ tx = <<>>
    /\ ret = [op |-> "new"]
    /\ rounds = None
    /\ TcpServerUnused
    /\ CodecUnused

\* the intervals of the calls: the clock does not advance, and the drains of
\* the buckets are the only sends
BucketIntervals == {1}

\* full buckets: offers, and the drains by send_pings and
\* send_nodes_req_packets
NextBucket ==
    \/ \E node \in BucketOffers : AddToClose(1, node)
    \/ \E node \in BucketOffers : TryAdd(node)
    \/ \E pi \in BucketIntervals, ni \in BucketIntervals, bt \in Durations :
          SendNodesReqPackets(1, pi, ni, bt)
    \/ \E ii \in Durations : SendPings(ii)

SpecBucket == InitBucket /\ [][NextBucket]_vars

\* ---------------------------------------------- friend maintenance rounds
\* Step 6 of the maintenance tick: the server calls send_nodes_req_packets
\* of every friend, in the order of Server::friends, once per tick. A tick
\* is one unit of time.

\* bound: the clock of the maintenance rounds stops at MaxMaintenanceTime
MaxMaintenanceTime == 3

\* the keys of the two friends, and the node that both have as close node
MaintenanceFriendPks == <<6, 2>>
SharedNodes == {[pk |-> 1, saddr |-> "a1"]}

\* no round has run, and no friend has sent a periodic request
RoundsNew ==
    [round_at |-> -1,
     last |-> [fi \in DOMAIN MaintenanceFriendPks |-> [pk \in AllPks |-> -1]]]

\* a server with two friends that add_to_close has given the same node;
\* no request has been sent yet
InitMaintenance ==
    /\ now = 0
    /\ config \in [pk : OwnPks, bad_node_timeout : {1}, ping_timeout : {0},
                   max_ids : {MaxBucketIds}, max_failed : {MaxFailed},
                   ping_interval : {1}]
    /\ close_nodes = {}
    /\ ping_map = [pk \in AllPks |-> None]
    /\ \E node \in SharedNodes, b \in BootstrapTimes :
          friends = [fi \in DOMAIN MaintenanceFriendPks |->
              [DhtFriendNew(MaintenanceFriendPks[fi], b, 0) EXCEPT
                  !.close_nodes =
                      BucketTryAdd(<<>>, MaintenanceFriendPks[fi], node),
                  !.bootstrap_nodes =
                      BucketTryAdd(<<>>, MaintenanceFriendPks[fi], node),
                  !.offered_close = {node.pk},
                  !.offered_bootstrap = {node.pk}]]
    /\ ping_sender = PingSenderNew(0)
    /\ tx = <<>>
    /\ ret = [op |-> "new"]
    /\ rounds = RoundsNew
    /\ TcpServerUnused
    /\ CodecUnused

RECURSIVE FriendsMaintenanceFrom(_, _, _, _, _, _, _, _)
\* the loop over Server::friends from index fi on: send_nodes_req_packets of
\* each friend runs its three passes on the ping_map that the friends
\* before it left. acc is [ctx, friends, periodic]; periodic lists, friend
\* by friend, the keys that the close-node pass sent a request to
FriendsMaintenanceFrom(acc, fi, ping_interval, nodes_req_interval, bad_node_timeout, rand1, rand2, t) ==
    IF fi > Len(acc.friends) THEN acc
    ELSE LET friend == acc.friends[fi]
             taken == BootstrapNodesTaken(friend)
             c1 == PingBootstrapNodes(acc.ctx, friend, t)
             c2 == PingAndGetCloseNodes(c1, taken, ping_interval, t)
             c3 == SendNodesReqRandom(c2, taken, bad_node_timeout,
                                      nodes_req_interval, rand1, rand2, t)
             f3 == IF c3.err = "none"
                   THEN FriendAfterRandom(c2.pm, taken, bad_node_timeout,
                                          nodes_req_interval, t)
                   ELSE taken
         IN  FriendsMaintenanceFrom(
                 [ctx |-> c3,
                  friends |-> [acc.friends EXCEPT ![fi] =
                      [f3 EXCEPT !.random_sent =
                          IF f3.bootstrap_times # friend.bootstrap_times
                          THEN @ + 1 ELSE @]],
                  periodic |-> Append(acc.periodic,
                      {c2.out[i].node.pk : i \in (Len(c1.out) + 1)..Len(c2.out)})],
                 fi + 1, ping_interval, nodes_req_interval, bad_node_timeout,
                 rand1, rand2, t)

\* the round of the tick at now: every friend's send_nodes_req_packets,
\* driven to completion. Every friend of these runs has one close node, so
\* the random pass picks index 0 whatever random_u32() returns
FriendsMaintenance(nodes_req_interval, bad_node_timeout) ==
    /\ rounds.round_at < now
    /\ \E acc \in {FriendsMaintenanceFrom(
                       [ctx |-> NewContext, friends |-> friends,
                        periodic |-> <<>>],
                       1, config.ping_interval, nodes_req_interval,
                       bad_node_timeout, 0, 0, now)} :
          /\ PendingIds(acc.ctx.pm) \subseteq 1..config.max_ids
          /\ \E failed \in Failures(acc.ctx.out) :
                tx' = Delivered(acc.ctx.out, failed)
          /\ ping_map' = acc.ctx.pm
          /\ friends' = acc.friends
          /\ rounds' = [round_at |-> now,
                        last |-> [fi \in DOMAIN rounds.last |->
                            [pk \in DOMAIN rounds.last[fi] |->
                                IF pk \in acc.periodic[fi] THEN now
                                ELSE rounds.last[fi][pk]]]]
          /\ ret' = [op |-> "friends_maintenance", result |-> "Ok",
                     locks |-> acc.ctx.ev]
    /\ UNCHANGED <<now, config, close_nodes, ping_sender, tcp_vars, codec_vars>>

\* the server sleeps until the next tick, after the round of this tick
MaintenanceSleep ==
    /\ rounds.round_at = now
    /\ now < MaxMaintenanceTime
    /\ now' = now + 1
    /\ UNCHANGED <<dht_vars, tcp_vars, codec_vars>>

\* maintenance rounds of two friends, responses of their close node, and
\* the node offered again
NextMaintenance ==
    \/ \E ni \in Durations, bt \in Durations : FriendsMaintenance(ni, bt)
    \/ MaintenanceSleep
    \/ \E fi \in 1..Len(friends), node \in SharedNodes : AddToClose(fi, node)
    \/ \E node \in SharedNodes, id \in 0..MaxIds : HandleResponse(node, id)
    \/ ExpirePingIds

SpecMaintenance == InitMaintenance /\ [][NextMaintenance]_vars

\* ------------------------------------------------ the random pass alone
\* send_nodes_req_random taken by itself: it is entered with any ping_map,
\* with or without the entries of the friend's close nodes.

\* the keys of the nodes offered to the friend, and the nodes
RandomPassPks == {1, 2, 3}
RandomPassNodes == {[pk |-> k, saddr |-> "a"] : k \in RandomPassPks}

\* values of random_u32() as usize
RandomDraws == {0, 1, 2, 2147483647}

\* a server with one friend; every node may or may not have a ping_map
\* entry, inserted at time 0
InitRandom ==
    /\ now = 0
    /\ config \in [pk : OwnPks, bad_node_timeout : {1}, ping_timeout : {0},
                   max_ids : {MaxBucketIds}, max_failed : {MaxFailed}]
    /\ close_nodes = {}
    /\ ping_map \in [RandomPassPks -> {None, PingDataNew(0)}]
    /\ \E pk \in FriendPks, b \in BootstrapTimes :
          friends = <<DhtFriendNew(pk, b, 0)>>
    /\ ping_sender = PingSenderNew(0)
    /\ tx = <<>>
    /\ ret = [op |-> "new"]
    /\ rounds = None
    /\ TcpServerUnused
    /\ CodecUnused

\* DhtFriend::send_nodes_req_random on friends[fi], its future driven to
\* completion. ret keeps good_nodes.len(), the first value of random_node,
\* the index picked (both -1 when the pass picks none) and whether the
\* filter of this call created the ping_map entry of the node picked
SendNodesReqRandomCall(fi, bad_node_timeout, nodes_req_interval, rand1, rand2) ==
    /\ UNCHANGED <<tcp_vars, codec_vars, rounds>>
    /\ \E good \in {GoodNodes(CreateEntries(ping_map, friends[fi].close_nodes, 1, now),
                               friends[fi].close_nodes, bad_node_timeout, now)} :
       \E due \in {RandomReqDue(friends[fi], good, nodes_req_interval, now)} :
       \E c3 \in {SendNodesReqRandom(NewContext, friends[fi], bad_node_timeout,
                                     nodes_req_interval, rand1, rand2, now)} :
       \E random_node \in {IF due THEN RandomNode(Len(good), rand1, rand2) ELSE -1} :
          /\ PendingIds(c3.pm) \subseteq 1..config.max_ids
          /\ \E failed \in Failures(c3.out) :
               /\ ping_map' = c3.pm
               /\ tx' = Delivered(c3.out, failed)
               /\ friends' = [friends EXCEPT ![fi] =
                    IF c3.err = "none"
                    THEN [FriendAfterRandom(ping_map, @, bad_node_timeout,
                                            nodes_req_interval, now)
                             EXCEPT !.random_sent = IF due THEN @ + 1 ELSE @]
                    ELSE @]
               /\ ret' = [op |-> "send_nodes_req_random",
                          result |-> IF c3.err # "none" THEN c3.err
                                     ELSE IF failed # {} THEN "Err" ELSE "Ok",
                          num_nodes |-> Len(good),
                          first |-> IF due THEN rand1 % Len(good) ELSE -1,
                          random_node |-> random_node,
                          created |-> /\ due
                                      /\ ping_map[good[random_node + 1].pk] = None]
    /\ UNCHANGED <<now, config, close_nodes, ping_sender>>

\* the random pass of one friend, nodes offered to it, and time
NextRandom ==
    \/ \E node \in RandomPassNodes : AddToClose(1, node)
    \/ \E bt \in Durations, ni \in Durations, r1 \in RandomDraws, r2 \in RandomDraws :
          SendNodesReqRandomCall(1, bt, ni, r1, r2)
    \/ Tick

SpecRandom == InitRandom /\ [][NextRandom]_vars

\* ------------------------------------------- TCP server (tcp_server.rs)
\* main of examples/tcp_server.rs: the accept loop spawns one task per
\* client; the task is the handshake followed by the select of the
\* session's processor, reader and writer.

\* the clients that connect
MaxClients == 2
\* the packets that the processor of one session queues for its client
MaxPackets == 2
\* the clock of the TCP server stops at MaxTcpTime seconds and advances by
\* one of TickSteps seconds
MaxTcpTime == 45
TickSteps == {15}
\* the seconds that the writer allows one send
WRITER_TIMEOUT == 30

ClientIds == 1..MaxClients
Results == {"Ok", "Err"}

\* a run without the DHT server
DhtUnused ==
    /\ config = None /\ close_nodes = None /\ ping_map = None
    /\ friends = None /\ ping_sender = None /\ tx = None /\ ret = None
    /\ rounds = None

\* a client that has not connected. processor, reader and writer are the
\* three futures of the session; queued counts the packets the processor
\* has put on to_client_rx, dequeued lists the packets the writer has taken
\* from it, sending is the send in flight, written lists the packets whose
\* send has completed; result is what the task's future resolved to, cause
\* names the future that ended the session, and after holds the causes of
\* the session errors that came before the client was accepted
SessionNew ==
    [state |-> "none", processor |-> "none", reader |-> "none",
     writer |-> "none", to_client_rx |-> <<>>, queued |-> 0,
     dequeued |-> <<>>, sending |-> None, written |-> <<>>,
     result |-> "none", cause |-> "none", after |-> {}]

\* TcpListener::bind and the server before any client connects; errors
\* holds the causes of the session errors so far
TcpServerNew ==
    /\ listener = [state |-> "accepting", errors |-> {}]
    /\ clients = [c \in ClientIds |-> SessionNew]

\* whether tokio::run(server) has returned: the accept loop has ended and
\* no spawned task is left
ServerTerminated ==
    /\ listener.state = "stopped"
    /\ \A c \in ClientIds : clients[c].state \notin {"handshake", "running"}

\* what the accept loop is after a task resolved to result, if the loop
\* waited for the task instead of spawning it
Awaited(l, result, cause) ==
    IF result = "Err" THEN [l EXCEPT !.state = "stopped", !.errors = @ \cup {cause}]
    ELSE l

\* what the accept loop is after a spawned task resolved to result:
\* tokio::spawn(process.map(|_| ()).map_err(|_| ())) discards it
Spawned(l, result, cause) ==
    IF result = "Err" THEN [l EXCEPT !.errors = @ \cup {cause}] ELSE l

\* a future of a session that ends: the future that completed has the
\* result, a future that was still running is dropped
Part(session, name, part, result) ==
    IF name = part THEN (IF result = "Ok" THEN "ok" ELSE "err")
    ELSE IF session[name] = "running" THEN "dropped"
    ELSE session[name]

\* variant: the three futures are independent tasks and only the future
\* that completed ends; the session goes on with the two others
EndedAlone(session, part, result, cause) ==
    IF part = "none" THEN [session EXCEPT !.state = "ended", !.result = result,
                                          !.cause = cause]
    ELSE [session EXCEPT ![part] = IF result = "Ok" THEN "ok" ELSE "err",
                         !.result = result, !.cause = cause]

\* the session after part completed with result
Ended(session, part, result, cause) ==
    [session EXCEPT !.state = "ended",
                    !.processor = Part(session, "processor", part, result),
                    !.reader = Part(session, "reader", part, result),
                    !.writer = Part(session, "writer", part, result),
                    !.result = result, !.cause = cause]

\* the sessions after a future of every session ends when the future part
\* of client c completes with an error
SelectAll(cl, c, part, result, cause) ==
    [d \in DOMAIN cl |->
        IF d = c \/ (result = "Err" /\ cl[d].state \in {"handshake", "running"})
        THEN Ended(cl[d], IF d = c THEN part ELSE "none", result, cause)
        ELSE cl[d]]

\* processor.select(reader).select(writer): the sessions after the future
\* part of client c completed with result; the task of c resolves to
\* result and drops the two other futures
Select(cl, c, part, result, cause) ==
    [cl EXCEPT ![c] = Ended(@, part, result, cause)]

\* the task of client c resolves
Resolve(c, part, result, cause) ==
    /\ clients' = Select(clients, c, part, result, cause)
    /\ listener' = Spawned(listener, result, cause)
    /\ UNCHANGED <<now, dht_vars, codec_vars>>

\* listener.incoming() yields the socket of client c, and the closure
\* spawns the task of c
Incoming(c) ==
    /\ listener.state = "accepting"
    /\ clients[c].state = "none"
    /\ clients' = [clients EXCEPT ![c] =
           [SessionNew EXCEPT !.state = "handshake",
                              !.after = listener.errors]]
    /\ UNCHANGED <<now, dht_vars, codec_vars, listener>>

\* listener.incoming() yields an error, or socket.peer_addr() fails: for_each
\* resolves to the error and no client is accepted any more
IncomingError ==
    /\ listener.state = "accepting"
    /\ listener' = [listener EXCEPT !.state = "stopped"]
    /\ UNCHANGED <<now, dht_vars, codec_vars, clients>>

\* make_server_handshake of client c completes: the and_then closure
\* creates the processor, the reader and the writer
RegisterClient(c) ==
    /\ clients[c].state = "handshake"
    /\ clients' = [clients EXCEPT ![c] =
           [@ EXCEPT !.state = "running", !.processor = "running",
                     !.reader = "running", !.writer = "running"]]
    /\ UNCHANGED <<now, dht_vars, codec_vars, listener>>

\* make_server_handshake of client c fails: register_client resolves to the
\* "Handshake error", and the and_then closure does not run
RegisterClientError(c) ==
    /\ clients[c].state = "handshake"
    /\ Resolve(c, "none", "Err", "handshake")

\* the processor of client c puts its next packet on to_client_rx
ProcessorQueues(c) ==
    /\ clients[c].state = "running"
    /\ clients[c].queued < MaxPackets
    /\ clients' = [clients EXCEPT ![c] =
           [@ EXCEPT !.queued = @ + 1,
                     !.to_client_rx = Append(@, clients[c].queued + 1)]]
    /\ UNCHANGED <<now, dht_vars, codec_vars, listener>>

\* the processor of client c completes
ProcessorEnds(c, result) ==
    /\ clients[c].state = "running"
    /\ Resolve(c, "processor", result, "processor")

\* the reader of client c completes: from_client has ended, or from_client
\* or the forwarding to from_client_tx has failed
ReaderEnds(c, result) ==
    /\ clients[c].state = "running"
    /\ Resolve(c, "reader", result, "reader")

\* a send that starts at t without a deadline
SendNoDeadline(packet, t) ==
    [packet |-> packet, started |-> t, deadline |-> None]

\* to_client.send(packet).deadline(Instant::now() + Duration::from_secs(30))
SendDeadline(packet, t) ==
    [packet |-> packet, started |-> t, deadline |-> [at |-> t + WRITER_TIMEOUT]]

\* the fold of the writer takes the next packet from to_client_rx while
\* another send may be in flight
WriterDequeuesConcurrently(c) ==
    /\ clients[c].state = "running"
    /\ clients[c].to_client_rx # <<>>
    /\ clients' = [clients EXCEPT ![c] =
           [@ EXCEPT !.to_client_rx = Tail(@),
                     !.dequeued = Append(@, Head(clients[c].to_client_rx)),
                     !.sending = SendDeadline(Head(clients[c].to_client_rx), now)]]
    /\ UNCHANGED <<now, dht_vars, codec_vars, listener>>

\* the fold of the writer takes the next packet from to_client_rx and
\* starts its send: the fold polls the stream only when the future of the
\* previous packet has completed
WriterDequeues(c) ==
    /\ clients[c].state = "running"
    /\ clients[c].sending = None
    /\ clients[c].to_client_rx # <<>>
    /\ clients' = [clients EXCEPT ![c] =
           [@ EXCEPT !.to_client_rx = Tail(@),
                     !.dequeued = Append(@, Head(clients[c].to_client_rx)),
                     !.sending = SendDeadline(Head(clients[c].to_client_rx), now)]]
    /\ UNCHANGED <<now, dht_vars, codec_vars, listener>>

\* the send in flight of client c completes
WriterSent(c) ==
    /\ clients[c].state = "running"
    /\ clients[c].sending # None
    /\ clients' = [clients EXCEPT ![c] =
           [@ EXCEPT !.written = Append(@, clients[c].sending.packet),
                     !.sending = None]]
    /\ UNCHANGED <<now, dht_vars, codec_vars, listener>>

\* the send in flight of client c fails: the writer ends with an error
WriterSendError(c) ==
    /\ clients[c].state = "running"
    /\ clients[c].sending # None
    /\ Resolve(c, "writer", "Err", "writer")

\* the deadline of the send in flight of client c has passed: the send
\* fails with "Writer timed out" and the writer ends with an error
WriterTimedOut(c) ==
    /\ clients[c].state = "running"
    /\ clients[c].sending # None
    /\ clients[c].sending.deadline # None
    /\ now >= clients[c].sending.deadline.at
    /\ Resolve(c, "writer", "Err", "timeout")

\* to_client_rx is exhausted: the writer drops to_client and completes
WriterEnds(c) ==
    /\ clients[c].state = "running"
    /\ clients[c].sending = None
    /\ clients[c].to_client_rx = <<>>
    /\ Resolve(c, "writer", "Ok", "writer")

\* the deadlines of the sends in flight
Deadlines ==
    {clients[c].sending.deadline.at : c \in
        {d \in ClientIds : /\ clients[d].state = "running"
                           /\ clients[d].sending # None
                           /\ clients[d].sending.deadline # None}}

\* step seconds pass; the timer of a deadline fires before the clock passes
\* the deadline
TcpTick(step) ==
    /\ now < MaxTcpTime
    /\ \A d \in Deadlines : now + step <= d
    /\ now' = now + step
    /\ UNCHANGED <<dht_vars, codec_vars, tcp_vars>>

InitTcp ==
    /\ now = 0
    /\ DhtUnused
    /\ CodecUnused
    /\ TcpServerNew

NextTcp ==
    \/ \E c \in ClientIds : Incoming(c)
    \/ IncomingError
    \/ \E c \in ClientIds : RegisterClient(c)
    \/ \E c \in ClientIds : RegisterClientError(c)
    \/ \E c \in ClientIds : ProcessorQueues(c)
    \/ \E c \in ClientIds, result \in Results : ProcessorEnds(c, result)
    \/ \E c \in ClientIds, result \in Results : ReaderEnds(c, result)
    \/ \E c \in ClientIds : WriterDequeues(c)
    \/ \E c \in ClientIds : WriterSent(c)
    \/ \E c \in ClientIds : WriterSendError(c)
    \/ \E c \in ClientIds : WriterTimedOut(c)
    \/ \E c \in ClientIds : WriterEnds(c)
    \/ \E step \in TickSteps : TcpTick(step)

SpecTcp == InitTcp /\ [][NextTcp]_vars

\* ------------------------------------------------ DHT packets (dht.rs)
\* Byte strings are sequences of numbers in 0..255. A u16 is a number, a
\* u64 is the sequence of its four 16-bit limbs, most significant first.
\* An Option is None or Some(v); a parser that indexes past the end of its
\* input panics, and its result is Panic.

PUBLICKEYBYTES == 32
NONCEBYTES == 24
MACBYTES == 16
PING_SIZE == 9
PACKED_NODE_IPV4_SIZE == PUBLICKEYBYTES + 7
PACKED_NODE_IPV6_SIZE == PUBLICKEYBYTES + 19
GET_NODES_SIZE == PUBLICKEYBYTES + 8
DHT_PACKET_MIN_SIZE == 1 + PUBLICKEYBYTES + NONCEBYTES + MACBYTES + PING_SIZE

Some(v) == [some |-> v]
Panic == [panic |-> TRUE]
IsSome(r) == DOMAIN r = {"some"}

\* n bytes of value b
Fill(n, b) == [i \in 1..n |-> b]
\* &bytes[from..to] and &bytes[from..], for indices within the input
Slice(bytes, from, to) == SubSeq(bytes, from + 1, to)
SliceFrom(bytes, from) == SubSeq(bytes, from + 1, Len(bytes))

\* the conversions of binary_io between numbers and big-endian bytes
array_to_u16(array) == array[1] * 256 + array[2]
u16_to_array(num) == <<num \div 256, num % 256>>
array_to_u64(array) ==
    [i \in 1..4 |-> array_to_u16(<<array[2 * i - 1], array[2 * i]>>)]
u64_to_array(num) ==
    u16_to_array(num[1]) \o u16_to_array(num[2]) \o
    u16_to_array(num[3]) \o u16_to_array(num[4])

PingType_from_bytes(bytes) ==
    IF Len(bytes) = 0 THEN None
    ELSE IF bytes[1] = 0 THEN Some("Req")
    ELSE IF bytes[1] = 1 THEN Some("Resp")
    ELSE None

\* PingType as u8
PingType_as_u8(p_type) == IF p_type = "Req" THEN 0 ELSE 1

Ping_as_bytes(ping) == <<PingType_as_u8(ping.p_type)>> \o u64_to_array(ping.id)

Ping_from_bytes(bytes) ==
    IF Len(bytes) < PING_SIZE THEN None
    ELSE IF PingType_from_bytes(bytes) # None
    THEN Some([p_type |-> PingType_from_bytes(bytes).some,
               id |-> array_to_u64(Slice(bytes, 1, 9))])
    ELSE None

\* IpType as u8
IpType_as_u8(ip_type) ==
    CASE ip_type = "U4" -> 2 [] ip_type = "U6" -> 10
      [] ip_type = "T4" -> 130 [] ip_type = "T6" -> 138

IpType_from_bytes(bytes) ==
    IF Len(bytes) = 0 THEN None
    ELSE IF bytes[1] = 2 THEN Some("U4")
    ELSE IF bytes[1] = 10 THEN Some("U6")
    ELSE IF bytes[1] = 130 THEN Some("T4")
    ELSE IF bytes[1] = 138 THEN Some("T6")
    ELSE None

\* an IpAddr is its family and its octets (V4) or its segments (V6)
IpAddr_as_bytes(ip) ==
    IF ip.family = "V4" THEN ip.addr
    ELSE u16_to_array(ip.addr[1]) \o u16_to_array(ip.addr[2]) \o
         u16_to_array(ip.addr[3]) \o u16_to_array(ip.addr[4]) \o
         u16_to_array(ip.addr[5]) \o u16_to_array(ip.addr[6]) \o
         u16_to_array(ip.addr[7]) \o u16_to_array(ip.addr[8])

Ipv6Addr_from_bytes(bytes) ==
    IF Len(bytes) < 16 THEN None
    ELSE Some([family |-> "V6",
               addr |-> [i \in 1..8 |->
                   array_to_u16(<<bytes[2 * i - 1], bytes[2 * i]>>)]])

\* PackedNode::new: the fields are stored as given, the ip_type is not
\* compared with the family of socketaddr
PackedNode_new(ip_type, socketaddr, node_id) ==
    [ip_type |-> ip_type, socketaddr |-> socketaddr, node_id |-> node_id]

\* a PackedNode is [ip_type, socketaddr |-> [ip, port], node_id]
PackedNode_as_bytes(node) ==
    <<IpType_as_u8(node.ip_type)>> \o IpAddr_as_bytes(node.socketaddr.ip) \o
    u16_to_array(node.socketaddr.port) \o node.node_id

\* as_ipv4 of PackedNode::from_bytes, called with at least 39 bytes
as_ipv4(bytes) ==
    Some([socketaddr |->
              [ip |-> [family |-> "V4", addr |-> Slice(bytes, 1, 5)],
               port |-> array_to_u16(<<bytes[6], bytes[7]>>)],
          node_id |-> Slice(bytes, 7, PACKED_NODE_IPV4_SIZE)])

\* as_ipv6 of PackedNode::from_bytes
as_ipv6(bytes) ==
    IF Len(bytes) < PACKED_NODE_IPV6_SIZE THEN None
    ELSE IF Ipv6Addr_from_bytes(SliceFrom(bytes, 1)) = None THEN None
    ELSE Some([socketaddr |->
                   [ip |-> Ipv6Addr_from_bytes(SliceFrom(bytes, 1)).some,
                    port |-> array_to_u16(<<bytes[18], bytes[19]>>)],
               node_id |-> Slice(bytes, 19, PACKED_NODE_IPV6_SIZE)])

PackedNode_from_bytes(bytes) ==
    IF Len(bytes) >= PACKED_NODE_IPV4_SIZE
    THEN LET iptype == IpType_from_bytes(bytes)
         IN  IF iptype = None THEN None
             ELSE LET saddr_and_pk ==
                          IF iptype.some \in {"U4", "T4"} THEN as_ipv4(bytes)
                          ELSE as_ipv6(bytes)
                  IN  IF saddr_and_pk = None THEN None
                      ELSE Some([ip_type |-> iptype.some,
                                 socketaddr |-> saddr_and_pk.some.socketaddr,
                                 node_id |-> saddr_and_pk.some.node_id])
    ELSE None

\* the serialized size that from_bytes_multiple advances by
PackedNodeSize(node) ==
    IF node.ip_type \in {"U4", "T4"} THEN PACKED_NODE_IPV4_SIZE
    ELSE PACKED_NODE_IPV6_SIZE

RECURSIVE FromBytesMultipleLoop(_, _, _)
\* the while loop of from_bytes_multiple: parse nodes until the first error
FromBytesMultipleLoop(bytes, cur_pos, result) ==
    LET node == PackedNode_from_bytes(SliceFrom(bytes, cur_pos))
    IN  IF node = None THEN result
        ELSE FromBytesMultipleLoop(bytes, cur_pos + PackedNodeSize(node.some),
                                   Append(result, node.some))

PackedNode_from_bytes_multiple(bytes) ==
    IF Len(bytes) < PACKED_NODE_IPV4_SIZE THEN None
    ELSE LET result == FromBytesMultipleLoop(bytes, 0, <<>>)
         IN  IF Len(result) = 0 THEN None ELSE Some(result)

GetNodes_as_bytes(get_nodes) == get_nodes.pk \o u64_to_array(get_nodes.id)

GetNodes_from_bytes(bytes) ==
    IF Len(bytes) < GET_NODES_SIZE THEN None
    ELSE Some([pk |-> Slice(bytes, 0, PUBLICKEYBYTES),
               id |-> array_to_u64(Slice(bytes, PUBLICKEYBYTES, GET_NODES_SIZE))])

\* from_request without the upper limit on the number of nodes
SendNodes_from_request_unlimited(request, nodes) ==
    IF Len(nodes) = 0 THEN None
    ELSE Some([nodes |-> nodes, id |-> request.id])

SendNodes_from_request(request, nodes) ==
    IF Len(nodes) = 0 \/ Len(nodes) > 4 THEN None
    ELSE Some([nodes |-> nodes, id |-> request.id])

RECURSIVE NodesAsBytes(_)
\* the packed nodes one after the other
NodesAsBytes(nodes) ==
    IF nodes = <<>> THEN <<>>
    ELSE PackedNode_as_bytes(Head(nodes)) \o NodesAsBytes(Tail(nodes))

SendNodes_as_bytes(send_nodes) ==
    <<Len(send_nodes.nodes) % 256>> \o NodesAsBytes(send_nodes.nodes) \o
    u64_to_array(send_nodes.id)

SendNodes_from_bytes(bytes) ==
    IF Len(bytes) = 0 THEN Panic
    ELSE IF bytes[1] < 1 \/ bytes[1] > 4 THEN None
    ELSE LET nodes == PackedNode_from_bytes_multiple(SliceFrom(bytes, 1))
         IN  IF nodes = None THEN None
             ELSE IF Len(nodes.some) > 4 THEN None
             ELSE LET nodes_bytes_len == 1 + Len(NodesAsBytes(nodes.some))
                  IN  IF nodes_bytes_len + 8 > Len(bytes) THEN Panic
                      ELSE Some([nodes |-> nodes.some,
                                 id |-> array_to_u64(Slice(bytes,
                                     nodes_bytes_len, nodes_bytes_len + 8))])

\* DPacketTnum as u8
DPacketTnum_as_u8(num) ==
    CASE num = "PingReq" -> 0 [] num = "PingResp" -> 1
      [] num = "GetN" -> 2 [] num = "SendN" -> 4

DPacketTnum_from_bytes(bytes) ==
    IF Len(bytes) = 0 THEN None
    ELSE IF bytes[1] = 0 THEN Some("PingReq")
    ELSE IF bytes[1] = 1 THEN Some("PingResp")
    ELSE IF bytes[1] = 2 THEN Some("GetN")
    ELSE IF bytes[1] = 4 THEN Some("SendN")
    ELSE None

\* the key of the authenticated encryption between the sender of sender_pk
\* and the receiver, for nonce
SharedKey(nonce, sender_pk) == (nonce[1] + sender_pk[1]) % 256

\* seal: the MACBYTES of the authentication tag, then the encrypted bytes
seal(plain, nonce, sender_pk) ==
    Fill(MACBYTES, SharedKey(nonce, sender_pk)) \o
    [i \in 1..Len(plain) |-> (plain[i] + SharedKey(nonce, sender_pk)) % 256]

\* open: the plain bytes, or None when the authentication fails
open(payload, nonce, sender_pk) ==
    IF /\ Len(payload) >= MACBYTES
       /\ \A i \in 1..MACBYTES : payload[i] = SharedKey(nonce, sender_pk)
    THEN Some([i \in 1..(Len(payload) - MACBYTES) |->
                  (payload[i + MACBYTES] + 256 - SharedKey(nonce, sender_pk)) % 256])
    ELSE None

DhtPacket_as_bytes(packet) ==
    <<DPacketTnum_as_u8(packet.packet_type)>> \o packet.sender_pk \o
    packet.nonce \o packet.payload

DhtPacket_from_bytes(bytes) ==
    IF Len(bytes) < DHT_PACKET_MIN_SIZE THEN None
    ELSE IF DPacketTnum_from_bytes(bytes) = None THEN None
    ELSE Some([packet_type |-> DPacketTnum_from_bytes(bytes).some,
               sender_pk |-> Slice(bytes, 1, 1 + PUBLICKEYBYTES),
               nonce |-> Slice(bytes, 1 + PUBLICKEYBYTES,
                               1 + PUBLICKEYBYTES + NONCEBYTES),
               payload |-> SliceFrom(bytes, 1 + PUBLICKEYBYTES + NONCEBYTES)])

\* a parsed payload as the variant kind of DPacketT; a panic of the parser
\* is a panic of get_packet
DPacketT(kind, parsed) ==
    IF IsSome(parsed) THEN Some([kind |-> kind, packet |-> parsed.some])
    ELSE parsed

\* DPacketT::as_type: the packet kind number of a payload
DPacketT_as_type(packet) ==
    CASE packet.kind = "GetNodes" -> "GetN"
      [] packet.kind = "SendNodes" -> "SendN"
      [] packet.kind = "Ping" ->
            IF packet.packet.p_type = "Req" THEN "PingReq" ELSE "PingResp"

DhtPacket_get_packet(packet) ==
    LET decrypted == open(packet.payload, packet.nonce, packet.sender_pk)
    IN  IF decrypted = None THEN None
        ELSE IF packet.packet_type \in {"PingReq", "PingResp"}
        THEN DPacketT("Ping", Ping_from_bytes(decrypted.some))
        ELSE IF packet.packet_type = "GetN"
        THEN DPacketT("GetNodes", GetNodes_from_bytes(decrypted.some))
        ELSE DPacketT("SendNodes", SendNodes_from_bytes(decrypted.some))

\* --------------------------------- old state format (old_state_format.rs)
SectionKind_from_bytes(bytes) ==
    IF Len(bytes) = 0 THEN Panic
    ELSE IF bytes[1] = 1 THEN Some("NospamKeys")
    ELSE IF bytes[1] = 2 THEN Some("DHT")
    ELSE IF bytes[1] = 3 THEN Some("Friends")
    ELSE IF bytes[1] = 4 THEN Some("Name")
    ELSE IF bytes[1] = 5 THEN Some("StatusMsg")
    ELSE IF bytes[1] = 6 THEN Some("Status")
    ELSE IF bytes[1] = 10 THEN Some("TcpRelays")
    ELSE IF bytes[1] = 11 THEN Some("PathNodes")
    ELSE IF bytes[1] = 255 THEN Some("EOF")
    ELSE None

\* ------------------------------------- packets parsed with nom (ToBytes,
\* FromBytes): nodes_request.rs, onion_data_response.rs,
\* disconnect_notification.rs, onion_request.rs
\* The result of a parser is Done(rest, value), Error or Incomplete. A
\* serializer writes at offset 0 of a buffer of cap bytes; its result is
\* Ok(bytes) or GenError.

ONION_MAX_PACKET_SIZE == 1400
IPV4_PADDING_SIZE == 12
IP_PORT_SIZE == 1 + 4 + IPV4_PADDING_SIZE + 2

Done(rest, value) == [done |-> [rest |-> rest, value |-> value]]
Error == [error |-> TRUE]
Incomplete == [incomplete |-> TRUE]
IsDone(r) == DOMAIN r = {"done"}

Ok(bytes) == [ok |-> bytes]
GenError == [gen_error |-> "BufferTooSmall"]
IsOk(r) == DOMAIN r = {"ok"}

\* gen_slice!, and gen_be_u8! for one byte: append to the buffer, or fail
\* when the buffer of cap bytes is too small
gen_slice(buf, slice, cap) ==
    IF ~IsOk(buf) THEN buf
    ELSE IF Len(buf.ok) + Len(slice) > cap THEN GenError
    ELSE Ok(buf.ok \o slice)

\* gen_len_limit: fail when more than limit bytes have been written
gen_len_limit(buf, limit) ==
    IF ~IsOk(buf) THEN buf
    ELSE IF Len(buf.ok) <= limit THEN buf
    ELSE GenError

\* tag! of one byte
tag(input, byte) ==
    IF Len(input) = 0 THEN Incomplete
    ELSE IF input[1] # byte THEN Error
    ELSE Done(Tail(input), <<byte>>)

\* take!: the next n bytes
take(input, n) ==
    IF Len(input) < n THEN Incomplete
    ELSE Done(SliceFrom(input, n), Slice(input, 0, n))

\* the byte of an IpPort's protocol and address family
IpPort_type(ip_port) ==
    IF ip_port.protocol = "UDP"
    THEN (IF ip_port.ip_addr.family = "V4" THEN 2 ELSE 10)
    ELSE (IF ip_port.ip_addr.family = "V4" THEN 130 ELSE 138)

\* IpPort::to_bytes: the type, the address, padded to 16 bytes, the port
IpPort_to_bytes(buf, ip_port, cap) ==
    gen_slice(
        gen_slice(
            gen_slice(
                gen_slice(buf, <<IpPort_type(ip_port)>>, cap),
                IpAddr_as_bytes(ip_port.ip_addr), cap),
            IF ip_port.ip_addr.family = "V4"
            THEN Fill(IPV4_PADDING_SIZE, 0) ELSE <<>>, cap),
        u16_to_array(ip_port.port), cap)

\* IpPort::from_bytes
IpPort_from_bytes(input) ==
    IF Len(input) = 0 THEN Incomplete
    ELSE IF input[1] \notin {2, 10, 130, 138} THEN Error
    ELSE IF Len(input) < IP_PORT_SIZE THEN Incomplete
    ELSE Done(SliceFrom(input, IP_PORT_SIZE),
              [protocol |-> IF input[1] \in {2, 10} THEN "UDP" ELSE "TCP",
               ip_addr |-> IF input[1] \in {2, 130}
                           THEN [family |-> "V4", addr |-> Slice(input, 1, 5)]
                           ELSE Ipv6Addr_from_bytes(SliceFrom(input, 1)).some,
               port |-> array_to_u16(Slice(input, 17, 19))])

NodesRequest_to_bytes(packet, cap) ==
    gen_slice(
        gen_slice(
            gen_slice(
                gen_slice(Ok(<<>>), <<2>>, cap),
                packet.pk, cap),
            packet.nonce, cap),
        packet.payload, cap)

NodesRequest_from_bytes(input) ==
    IF ~IsDone(tag(input, 2)) THEN tag(input, 2)
    ELSE IF ~IsDone(take(Tail(input), PUBLICKEYBYTES + NONCEBYTES)) THEN Incomplete
    ELSE Done(<<>>,
              [pk |-> Slice(input, 1, 1 + PUBLICKEYBYTES),
               nonce |-> Slice(input, 1 + PUBLICKEYBYTES,
                               1 + PUBLICKEYBYTES + NONCEBYTES),
               payload |-> SliceFrom(input, 1 + PUBLICKEYBYTES + NONCEBYTES)])

NodesRequestPayload_to_bytes(payload, cap) ==
    gen_slice(
        gen_slice(Ok(<<>>), payload.pk, cap),
        u64_to_array(payload.id), cap)

NodesRequestPayload_from_bytes(input) ==
    IF ~IsDone(take(input, PUBLICKEYBYTES)) THEN Incomplete
    ELSE IF ~IsDone(take(SliceFrom(input, PUBLICKEYBYTES), 8)) THEN Incomplete
    ELSE IF Len(input) # PUBLICKEYBYTES + 8 THEN Error
    ELSE Done(<<>>,
              [pk |-> Slice(input, 0, PUBLICKEYBYTES),
               id |-> array_to_u64(SliceFrom(input, PUBLICKEYBYTES))])

\* get_payload: "Ok" with the payload, or "Err"
NodesRequest_get_payload(packet) ==
    LET decrypted == open(packet.payload, packet.nonce, packet.pk)
    IN  IF decrypted = None THEN [err |-> "decrypt"]
        ELSE IF IsDone(NodesRequestPayload_from_bytes(decrypted.some))
        THEN Ok(NodesRequestPayload_from_bytes(decrypted.some).done.value)
        ELSE [err |-> "deserialize"]

\* to_bytes with the nonce and the temporary_pk in the other order
OnionDataResponse_to_bytes_swapped(packet, cap) ==
    gen_len_limit(
        gen_slice(
            gen_slice(
                gen_slice(
                    gen_slice(Ok(<<>>), <<134>>, cap),
                    packet.temporary_pk, cap),
                packet.nonce, cap),
            packet.payload, cap),
        ONION_MAX_PACKET_SIZE)

OnionDataResponse_to_bytes(packet, cap) ==
    gen_len_limit(
        gen_slice(
            gen_slice(
                gen_slice(
                    gen_slice(Ok(<<>>), <<134>>, cap),
                    packet.nonce, cap),
                packet.temporary_pk, cap),
            packet.payload, cap),
        ONION_MAX_PACKET_SIZE)

\* from_bytes that accepts less than ONION_MAX_PACKET_SIZE bytes only
OnionDataResponse_from_bytes_less(input) ==
    IF ~(Len(input) < ONION_MAX_PACKET_SIZE) THEN Error
    ELSE IF ~IsDone(tag(input, 134)) THEN tag(input, 134)
    ELSE IF ~IsDone(take(Tail(input), NONCEBYTES + PUBLICKEYBYTES)) THEN Incomplete
    ELSE Done(<<>>,
              [nonce |-> Slice(input, 1, 1 + NONCEBYTES),
               temporary_pk |-> Slice(input, 1 + NONCEBYTES,
                                      1 + NONCEBYTES + PUBLICKEYBYTES),
               payload |-> SliceFrom(input, 1 + NONCEBYTES + PUBLICKEYBYTES)])

OnionDataResponse_from_bytes(input) ==
    IF ~(Len(input) <= ONION_MAX_PACKET_SIZE) THEN Error
    ELSE IF ~IsDone(tag(input, 134)) THEN tag(input, 134)
    ELSE IF ~IsDone(take(Tail(input), NONCEBYTES + PUBLICKEYBYTES)) THEN Incomplete
    ELSE Done(<<>>,
              [nonce |-> Slice(input, 1, 1 + NONCEBYTES),
               temporary_pk |-> Slice(input, 1 + NONCEBYTES,
                                      1 + NONCEBYTES + PUBLICKEYBYTES),
               payload |-> SliceFrom(input, 1 + NONCEBYTES + PUBLICKEYBYTES)])

DisconnectNotification_to_bytes(packet, cap) ==
    gen_slice(gen_slice(Ok(<<>>), <<3>>, cap), <<packet.connection_id>>, cap)

DisconnectNotification_from_bytes(input) ==
    IF ~IsDone(tag(input, 3)) THEN tag(input, 3)
    ELSE IF ~IsDone(take(Tail(input), 1)) THEN Incomplete
    ELSE Done(SliceFrom(input, 2), [connection_id |-> input[2]])

OnionRequest_to_bytes(packet, cap) ==
    gen_slice(
        gen_slice(
            IpPort_to_bytes(
                gen_slice(
                    gen_slice(Ok(<<>>), <<8>>, cap),
                    packet.nonce, cap),
                packet.ip_port, cap),
            packet.temporary_pk, cap),
        packet.payload, cap)

OnionRequest_from_bytes(input) ==
    IF ~IsDone(tag(input, 8)) THEN tag(input, 8)
    ELSE IF ~IsDone(take(Tail(input), NONCEBYTES)) THEN Incomplete
    ELSE IF ~IsDone(IpPort_from_bytes(SliceFrom(input, 1 + NONCEBYTES)))
    THEN IpPort_from_bytes(SliceFrom(input, 1 + NONCEBYTES))
    ELSE IF ~IsDone(take(SliceFrom(input, 1 + NONCEBYTES + IP_PORT_SIZE),
                         PUBLICKEYBYTES)) THEN Incomplete
    ELSE Done(<<>>,
              [nonce |-> Slice(input, 1, 1 + NONCEBYTES),
               ip_port |-> IpPort_from_bytes(
                               SliceFrom(input, 1 + NONCEBYTES)).done.value,
               temporary_pk |-> Slice(input, 1 + NONCEBYTES + IP_PORT_SIZE,
                   1 + NONCEBYTES + IP_PORT_SIZE + PUBLICKEYBYTES),
               payload |-> SliceFrom(input,
                   1 + NONCEBYTES + IP_PORT_SIZE + PUBLICKEYBYTES)])

\* ------------------------------------------------------- codec calls
\* codec is the last call: the function fn, its argument arg and its
\* result out, and in prev the call before it. A parser is called with an
\* input byte string, or with the bytes that the serializer of its type
\* wrote; a serializer is called with an input value.

\* the sizes of the buffers that the serializers write to
BufLens == {100, 2048}

\* n bytes that count up from b
Pattern(n, b) == [i \in 1..n |-> (b + i) % 256]
PkOf(b) == Pattern(PUBLICKEYBYTES, b)
NonceOf(b) == Pattern(NONCEBYTES, b)
\* request ids, and their bytes
Ids == {<<0, 0, 1, 42>>, <<65535, 2, 0, 7>>}
IdBytes == {u64_to_array(id) : id \in Ids}

\* packed nodes: UDP and TCP over IPv4, UDP over IPv6
V4Node(t, b) ==
    [ip_type |-> t,
     socketaddr |-> [ip |-> [family |-> "V4", addr |-> <<127, 0, 0, b>>],
                     port |-> 33445],
     node_id |-> PkOf(b)]
V6Node(b) ==
    [ip_type |-> "U6",
     socketaddr |-> [ip |-> [family |-> "V6", addr |-> [i \in 1..8 |-> 256 * i + b]],
                     port |-> 33445 + b],
     node_id |-> PkOf(b)]

\* lists of 0 to 5 packed nodes
NodeLists ==
    {<<>>, <<V4Node("U4", 1)>>, <<V6Node(1)>>,
     <<V4Node("U4", 1), V4Node("T4", 2)>>, <<V6Node(1), V4Node("U4", 2)>>,
     <<V4Node("U4", 1), V4Node("U4", 2), V6Node(3), V4Node("T4", 4)>>,
     <<V4Node("U4", 1), V4Node("U4", 2), V4Node("U4", 3), V4Node("U4", 4),
       V4Node("U4", 5)>>}

\* what follows the packed nodes of a SendNodes: nothing, a part of the id,
\* the id, or the id and one more byte
SendNodesTails ==
    {<<>>, <<0, 0, 1>>} \cup IdBytes \cup {b \o <<9>> : b \in IdBytes}

\* a count byte, packed nodes and a tail; the count is not always the
\* number of the nodes
SendNodesBytes ==
    {<<count>> \o NodesAsBytes(nodes) \o tail :
        count \in {0, 1, 2, 4, 5}, nodes \in NodeLists, tail \in SendNodesTails}

\* Ping and GetNodes payloads: cut short, exact, and with one more byte
PingBytes ==
    {<<t>> \o tail : t \in {0, 1, 2},
                     tail \in {<<0, 0, 1>>} \cup IdBytes \cup
                              {b \o <<9>> : b \in IdBytes}}
GetNodesBytes ==
    {PkOf(3) \o tail : tail \in {<<0, 0, 1>>} \cup IdBytes \cup
                                {b \o <<9>> : b \in IdBytes}}

\* packed nodes: one node, two nodes, an IPv6 node cut short, and an unknown
\* ip_type
PackedNodeBytes ==
    {NodesAsBytes(nodes) : nodes \in NodeLists} \cup
    {Slice(PackedNode_as_bytes(V6Node(1)), 0, 45),
     <<3>> \o Pattern(PACKED_NODE_IPV4_SIZE - 1, 0)}

\* the arguments of PackedNode::new: every ip_type with an IPv4 and with an
\* IPv6 socket address
IpTypes == {"U4", "U6", "T4", "T6"}
SocketAddrs == {V4Node("U4", 1).socketaddr, V6Node(1).socketaddr}
InputNodes ==
    {[ip_type |-> t, socketaddr |-> a, node_id |-> PkOf(1)] :
        t \in IpTypes, a \in SocketAddrs}

\* plain payloads of DHT packets: a Ping request, a GetNodes, a SendNodes, a
\* SendNodes without its id, and a SendNodes cut after the count, which is
\* also the bytes of a Ping response
DhtPlainBytes ==
    {<<0>> \o u64_to_array(<<0, 0, 1, 42>>) \o <<9>>,
     PkOf(3) \o u64_to_array(<<0, 0, 1, 42>>),
     <<1>> \o PackedNode_as_bytes(V4Node("U4", 1)) \o u64_to_array(<<0, 0, 1, 42>>),
     <<1>> \o PackedNode_as_bytes(V4Node("U4", 1)),
     <<1>> \o Pattern(8, 0)}

\* DHT packets: every kind byte with every plain payload sealed, a packet
\* whose authentication fails, and a packet cut short
DhtPacketBytes ==
    {<<t>> \o PkOf(5) \o NonceOf(6) \o seal(plain, NonceOf(6), PkOf(5)) :
        t \in {0, 1, 2, 3, 4}, plain \in DhtPlainBytes} \cup
    {<<4>> \o PkOf(5) \o NonceOf(6) \o Pattern(MACBYTES + PING_SIZE, 0),
     <<4>> \o PkOf(5) \o NonceOf(6) \o Pattern(MACBYTES + PING_SIZE - 1, 0)}

SectionKindBytes == {<<k>> : k \in {0, 1, 2, 3, 4, 5, 6, 7, 10, 11, 255}}

\* OnionDataResponse packets of 57, 1400 and 1401 bytes, and one cut short
OnionDataResponseBytes ==
    {<<134>> \o NonceOf(1) \o PkOf(2) \o Fill(n, 42) :
        n \in {0, ONION_MAX_PACKET_SIZE - 57, ONION_MAX_PACKET_SIZE - 56}} \cup
    {<<134>> \o NonceOf(1), <<135>> \o NonceOf(1) \o PkOf(2)}

\* the input byte strings
InputBytes ==
    {<<>>} \cup SendNodesBytes \cup PingBytes \cup GetNodesBytes \cup
    PackedNodeBytes \cup DhtPacketBytes \cup SectionKindBytes \cup
    OnionDataResponseBytes

\* the input values of the serializers
IpPorts ==
    {[protocol |-> "UDP", ip_addr |-> [family |-> "V4", addr |-> <<5, 6, 7, 8>>],
      port |-> 12345],
     [protocol |-> "TCP", ip_addr |-> [family |-> "V4", addr |-> <<5, 6, 7, 8>>],
      port |-> 12345],
     [protocol |-> "UDP", ip_addr |-> [family |-> "V6", addr |-> [i \in 1..8 |-> 256 * i]],
      port |-> 443],
     [protocol |-> "TCP", ip_addr |-> [family |-> "V6", addr |-> [i \in 1..8 |-> 256 * i]],
      port |-> 443]}
PayloadLens == {0, 123}
InputValues ==
    {[type |-> "NodesRequestPayload", value |-> [pk |-> PkOf(b), id |-> id]] :
        b \in {1, 2}, id \in Ids} \cup
    {[type |-> "NodesRequest",
      value |-> [pk |-> PkOf(1), nonce |-> NonceOf(2), payload |-> payload]] :
        payload \in {<<>>, Fill(123, 42),
                     seal(PkOf(3) \o u64_to_array(<<0, 0, 1, 42>>), NonceOf(2), PkOf(1)),
                     seal(PkOf(3) \o u64_to_array(<<0, 0, 1, 42>>) \o <<9>>,
                          NonceOf(2), PkOf(1))}} \cup
    {[type |-> "OnionDataResponse",
      value |-> [nonce |-> NonceOf(1), temporary_pk |-> PkOf(2),
                 payload |-> Fill(n, 42)]] :
        n \in PayloadLens \cup {ONION_MAX_PACKET_SIZE - 57,
                                ONION_MAX_PACKET_SIZE - 56}} \cup
    {[type |-> "DisconnectNotification", value |-> [connection_id |-> id]] :
        id \in {0, 17, 255}} \cup
    {[type |-> "OnionRequest",
      value |-> [nonce |-> NonceOf(1), ip_port |-> ip_port,
                 temporary_pk |-> PkOf(2), payload |-> Fill(n, 42)]] :
        ip_port \in IpPorts, n \in PayloadLens}

\* the arguments of SendNodes::from_request
InputRequests ==
    {[request |-> [pk |-> PkOf(3), id |-> id], nodes |-> nodes] :
        id \in Ids, nodes \in NodeLists}

InitCodec ==
    /\ now = 0
    /\ DhtUnused
    /\ TcpServerUnused
    /\ \E arg \in {[bytes |-> b] : b \in InputBytes} \cup InputValues \cup
                 InputRequests \cup InputNodes :
          codec = [fn |-> "input", arg |-> arg, out |-> None, prev |-> None]

\* the call of fn with arg returns out
Call(fn, arg, out) ==
    /\ codec' = [fn |-> fn, arg |-> arg, out |-> out,
                 prev |-> [fn |-> codec.fn, arg |-> codec.arg, out |-> codec.out]]
    /\ UNCHANGED <<now, dht_vars, tcp_vars>>

\* whether the last call left bytes to parse: an input byte string, or the
\* bytes written by the serializer of type
HasBytes(type) ==
    \/ codec.fn = "input" /\ "bytes" \in DOMAIN codec.arg
    \/ codec.fn = type \o "::to_bytes" /\ IsOk(codec.out)

\* those bytes
Bytes == IF codec.fn = "input" THEN codec.arg.bytes ELSE codec.out.ok

\* whether the last call is the input of a value of type
HasValue(type) ==
    codec.fn = "input" /\ "type" \in DOMAIN codec.arg /\ codec.arg.type = type

PingFromBytes ==
    /\ HasBytes("Ping")
    /\ Call("Ping::from_bytes", [bytes |-> Bytes], Ping_from_bytes(Bytes))

GetNodesFromBytes ==
    /\ HasBytes("GetNodes")
    /\ Call("GetNodes::from_bytes", [bytes |-> Bytes], GetNodes_from_bytes(Bytes))

PackedNodeFromBytes ==
    /\ HasBytes("PackedNode")
    /\ Call("PackedNode::from_bytes", [bytes |-> Bytes],
            PackedNode_from_bytes(Bytes))

PackedNodeNew ==
    /\ codec.fn = "input"
    /\ "ip_type" \in DOMAIN codec.arg
    /\ Call("PackedNode::new", codec.arg,
            Some(PackedNode_new(codec.arg.ip_type, codec.arg.socketaddr,
                                codec.arg.node_id)))

\* as_bytes of the PackedNode that new or from_bytes returned
PackedNodeAsBytes ==
    /\ codec.fn \in {"PackedNode::new", "PackedNode::from_bytes"}
    /\ IsSome(codec.out)
    /\ Call("PackedNode::as_bytes", [value |-> codec.out.some],
            Ok(PackedNode_as_bytes(codec.out.some)))

PackedNodeFromBytesMultiple ==
    /\ HasBytes("PackedNode")
    /\ Call("PackedNode::from_bytes_multiple", [bytes |-> Bytes],
            PackedNode_from_bytes_multiple(Bytes))

SendNodesFromBytes ==
    /\ HasBytes("SendNodes")
    /\ Call("SendNodes::from_bytes", [bytes |-> Bytes],
            SendNodes_from_bytes(Bytes))

\* as_bytes of the SendNodes that from_bytes returned
SendNodesAsBytes ==
    /\ codec.fn = "SendNodes::from_bytes"
    /\ IsSome(codec.out)
    /\ Call("SendNodes::as_bytes", [value |-> codec.out.some],
            Ok(SendNodes_as_bytes(codec.out.some)))

SendNodesFromRequest ==
    /\ codec.fn = "input"
    /\ "request" \in DOMAIN codec.arg
    /\ Call("SendNodes::from_request", codec.arg,
            SendNodes_from_request(codec.arg.request, codec.arg.nodes))

DhtPacketFromBytes ==
    /\ HasBytes("DhtPacket")
    /\ Call("DhtPacket::from_bytes", [bytes |-> Bytes],
            DhtPacket_from_bytes(Bytes))

\* get_packet of the DhtPacket that from_bytes returned
DhtPacketGetPacket ==
    /\ codec.fn = "DhtPacket::from_bytes"
    /\ IsSome(codec.out)
    /\ Call("DhtPacket::get_packet", [value |-> codec.out.some],
            DhtPacket_get_packet(codec.out.some))

SectionKindFromBytes ==
    /\ HasBytes("SectionKind")
    /\ Call("SectionKind::from_bytes", [bytes |-> Bytes],
            SectionKind_from_bytes(Bytes))

NodesRequestToBytes(cap) ==
    /\ HasValue("NodesRequest")
    /\ Call("NodesRequest::to_bytes", codec.arg,
            NodesRequest_to_bytes(codec.arg.value, cap))

NodesRequestFromBytes ==
    /\ HasBytes("NodesRequest")
    /\ Call("NodesRequest::from_bytes", [bytes |-> Bytes],
            NodesRequest_from_bytes(Bytes))

\* get_payload of the NodesRequest that from_bytes returned
NodesRequestGetPayload ==
    /\ codec.fn = "NodesRequest::from_bytes"
    /\ IsDone(codec.out)
    /\ Call("NodesRequest::get_payload", [value |-> codec.out.done.value],
            NodesRequest_get_payload(codec.out.done.value))

NodesRequestPayloadToBytes(cap) ==
    /\ HasValue("NodesRequestPayload")
    /\ Call("NodesRequestPayload::to_bytes", codec.arg,
            NodesRequestPayload_to_bytes(codec.arg.value, cap))

NodesRequestPayloadFromBytes ==
    /\ HasBytes("NodesRequestPayload")
    /\ Call("NodesRequestPayload::from_bytes", [bytes |-> Bytes],
            NodesRequestPayload_from_bytes(Bytes))

OnionDataResponseToBytes(cap) ==
    /\ HasValue("OnionDataResponse")
    /\ Call("OnionDataResponse::to_bytes", codec.arg,
            OnionDataResponse_to_bytes(codec.arg.value, cap))

OnionDataResponseFromBytes ==
    /\ HasBytes("OnionDataResponse")
    /\ Call("OnionDataResponse::from_bytes", [bytes |-> Bytes],
            OnionDataResponse_from_bytes(Bytes))

DisconnectNotificationToBytes(cap) ==
    /\ HasValue("DisconnectNotification")
    /\ Call("DisconnectNotification::to_bytes", codec.arg,
            DisconnectNotification_to_bytes(codec.arg.value, cap))

DisconnectNotificationFromBytes ==
    /\ HasBytes("DisconnectNotification")
    /\ Call("DisconnectNotification::from_bytes", [bytes |-> Bytes],
            DisconnectNotification_from_bytes(Bytes))

OnionRequestToBytes(cap) ==
    /\ HasValue("OnionRequest")
    /\ Call("OnionRequest::to_bytes", codec.arg,
            OnionRequest_to_bytes(codec.arg.value, cap))

OnionRequestFromBytes ==
    /\ HasBytes("OnionRequest")
    /\ Call("OnionRequest::from_bytes", [bytes |-> Bytes],
            OnionRequest_from_bytes(Bytes))

NextCodec ==
    \/ PingFromBytes
    \/ GetNodesFromBytes
    \/ PackedNodeFromBytes
    \/ PackedNodeNew
    \/ PackedNodeAsBytes
    \/ PackedNodeFromBytesMultiple
    \/ SendNodesFromBytes
    \/ SendNodesAsBytes
    \/ SendNodesFromRequest
    \/ DhtPacketFromBytes
    \/ DhtPacketGetPacket
    \/ SectionKindFromBytes
    \/ \E cap \in BufLens : NodesRequestToBytes(cap)
    \/ NodesRequestFromBytes
    \/ NodesRequestGetPayload
    \/ \E cap \in BufLens : NodesRequestPayloadToBytes(cap)
    \/ NodesRequestPayloadFromBytes
    \/ \E cap \in BufLens : OnionDataResponseToBytes(cap)
    \/ OnionDataResponseFromBytes
    \/ \E cap \in BufLens : DisconnectNotificationToBytes(cap)
    \/ DisconnectNotificationFromBytes
    \/ \E cap \in BufLens : OnionRequestToBytes(cap)
    \/ OnionRequestFromBytes

SpecCodec == InitCodec /\ [][NextCodec]_vars

\* ------------------------------------------------------------------ claims

Max(a, b) == IF a >= b THEN a ELSE b

\* C1: a friend created with bootstrap_times = b has emitted at most
\* max(0, MAX_BOOTSTRAP_TIMES - b) random-node NodesRequests, hence never
\* more than MAX_BOOTSTRAP_TIMES
C1_BootstrapCap ==
    \A i \in 1..Len(friends) :
        /\ friends[i].random_sent
             <= Max(0, MAX_BOOTSTRAP_TIMES - friends[i].created_with)
        /\ friends[i].random_sent <= MAX_BOOTSTRAP_TIMES

\* C1 witness: a friend created with bootstrap_times = 3 has spent its two
\* random-node requests, and a later call was made with a good close node
\* and sent none
C1_Witness ==
    /\ friends # <<>>
    /\ friends[1].created_with = MAX_BOOTSTRAP_TIMES - 2
    /\ friends[1].random_sent = 2
    /\ friends[1].bootstrap_times = MAX_BOOTSTRAP_TIMES
    /\ ret.op = "send_nodes_req_packets"
    /\ tx = <<>>
    /\ \E i \in 1..Len(friends[1].close_nodes) :
          LET e == ping_map[friends[1].close_nodes[i].pk]
          IN  e # None /\ e.last_resp_time = now

\* the nodes of all the models
AllNodes == SpecNodes \cup FriendNodes \cup PingNodes

\* the pending request ids of the ping_map entry of pk
Pending(pm, pk) == IF pm[pk] = None THEN {} ELSE pm[pk].ping_ids

\* every packet the step put on the outbound queue is a packet of kind kinds
\* whose id is recorded with the time of the call in the ping_map entry of
\* key(packet), where check_ping_id accepts it
RecordedUnder(kinds, key(_)) ==
    tx' # tx =>
        \A i \in 1..Len(tx') :
            tx'[i].kind \in kinds =>
                /\ <<tx'[i].id, now'>> \in Pending(ping_map', key(tx'[i]))
                /\ CheckPingId(ping_map'[key(tx'[i])], tx'[i].id,
                               config.ping_timeout, now')

\* a pending id that is not older than ping_timeout stays pending, and
\* accepted by check_ping_id, until a response that carries it is accepted
PendingKept ==
    \A pk \in DOMAIN ping_map : \A e \in Pending(ping_map, pk) :
        now' - e[2] <= config.ping_timeout =>
            \/ /\ e \in Pending(ping_map', pk)
               /\ CheckPingId(ping_map'[pk], e[1], config.ping_timeout, now')
            \/ /\ ret'.op = "handle_response" /\ ret'.result = TRUE
               /\ ret'.pk = pk /\ ret'.id = e[1]

DestinationPk(p) == p.node.pk
SearchedPk(p) == IF p.kind = "NodesRequest" THEN p.search_pk ELSE p.node.pk

\* C2 as stated: the id of a NodesRequest is recorded in the ping_map entry
\* of the key the request searches for (the friend's pk), the id of a
\* PingRequest in the entry of the node it is sent to
C2_RecordedUnderSearchedPk ==
    [][RecordedUnder({"NodesRequest", "PingRequest"}, SearchedPk)]_vars

\* C2 amended: the id of a NodesRequest or PingRequest sent to node n is
\* recorded with the time of the call in the ping_map entry of n.pk, and
\* check_ping_id on that entry accepts it for as long as it is not older
\* than ping_timeout and no response carrying it has been accepted
C2_RecordedUnderDestination ==
    [][/\ RecordedUnder({"NodesRequest", "PingRequest"}, DestinationPk)
       /\ PendingKept]_vars

\* C2 witness: a friend with another pk than its close node has sent that
\* node a NodesRequest whose id is pending in the node's entry, while the
\* friend's pk has no entry
C2_Witness ==
    /\ ret.op = "send_nodes_req_packets"
    /\ \E i \in 1..Len(tx) :
          /\ tx[i].kind = "NodesRequest"
          /\ tx[i].search_pk # tx[i].node.pk
          /\ \E e \in Pending(ping_map, tx[i].node.pk) : e[1] = tx[i].id
          /\ ping_map[tx[i].search_pk] = None

\* whether a response from pk carrying id answers a pending request that is
\* not older than ping_timeout
FreshId(pk, id) ==
    \E e \in Pending(ping_map, pk) :
        e[1] = id /\ now - e[2] <= config.ping_timeout

\* C3: a response whose id is older than ping_timeout, or was never issued to
\* that peer, fails the id check and changes neither ping_map nor
\* close_nodes; last_resp_time of an entry changes only when a fresh pending
\* id of that entry is consumed
C3_StaleIdIgnored ==
    [][/\ \A node \in AllNodes : \A id \in 0..MaxIds :
             (/\ ret'.op = "handle_response"
              /\ ret'.pk = node.pk /\ ret'.id = id
              /\ HandleResponse(node, id)
              /\ ~FreshId(node.pk, id)) =>
                 /\ ret'.result = FALSE
                 /\ ping_map' = ping_map
                 /\ close_nodes' = close_nodes
       /\ \A pk \in DOMAIN ping_map :
             (/\ ping_map[pk] # None
              /\ ping_map'[pk].last_resp_time # ping_map[pk].last_resp_time) =>
                 \E e \in Pending(ping_map, pk) :
                     /\ FreshId(pk, e[1])
                     /\ e \notin Pending(ping_map', pk)]_vars

\* C3 witness: a response carrying an id that is pending for its sender but
\* older than ping_timeout has been rejected
C3_Witness ==
    /\ ret.op = "handle_response"
    /\ ret.result = FALSE
    /\ \E e \in Pending(ping_map, ret.pk) :
          e[1] = ret.id /\ now - e[2] > config.ping_timeout

\* try_add case (a): node is in the server's close_nodes and has answered
\* less than bad_node_timeout ago (a node without ping_map entry gets one)
InCloseNodesNotTimedOut(node) ==
    /\ \E n \in close_nodes : n.pk = node.pk
    /\ \/ ping_map[node.pk] = None
       \/ now - ping_map[node.pk].last_resp_time < config.bad_node_timeout

\* try_add case (b): node is the server's own key, or its bucket of
\* close_nodes is full of other nodes, none of them farther than node
NotAddableToCloseNodes(node) ==
    \/ node.pk = config.pk
    \/ LET peers == {n \in close_nodes :
                        KbucketIndex(config.pk, n.pk)
                            = KbucketIndex(config.pk, node.pk)}
       IN  /\ Cardinality(peers) >= BUCKET_DEFAULT_SIZE
           /\ \A n \in peers :
                 n.pk # node.pk /\ ~Closer(config.pk, node.pk, n.pk)

\* try_add case (c): a node with the pk of node is in the pending queue
PendingSamePk(node) ==
    \E i \in 1..Len(ping_sender.nodes_to_send_ping) :
        ping_sender.nodes_to_send_ping[i].pk = node.pk

C4_WitnessInCloseNodes ==
    /\ ret.op = "try_add"
    /\ ret.result = FALSE
    /\ InCloseNodesNotTimedOut(ret.node)
    /\ ret.node.pk \notin FarPks

\* try_add has refused a node that is farther than the eight nodes of its
\* full bucket
C4_WitnessNotAddable ==
    /\ ret.op = "try_add"
    /\ ret.result = FALSE
    /\ ret.node.pk # config.pk
    /\ NotAddableToCloseNodes(ret.node)

\* node is a friend's pk and is not in that friend's close list
NewFriendNode(node) ==
    \E i \in 1..Len(friends) :
        /\ friends[i].pk = node.pk
        /\ ~BucketContains(friends[i].close_nodes, node.pk)

\* C5 as stated: try_add of a node whose pk is a friend's pk and that is not
\* in the friend's close list does not enqueue it, returns false, and puts a
\* PingRequest to the node on the outbound queue
C5_NewFriendPingedAtOnce ==
    [][\A node \in AllNodes :
          (/\ ret'.op = "try_add" /\ ret'.node = node
           /\ TryAdd(node)
           /\ NewFriendNode(node)) =>
              /\ ret'.result = FALSE
              /\ ping_sender' = ping_sender
              /\ \E i \in 1..Len(tx') :
                    /\ tx'[i].kind = "PingRequest"
                    /\ tx'[i].node = node]_vars

\* bucket b holds at most BUCKET_DEFAULT_SIZE nodes with unique pks, sorted
\* nearest-first to base, and they are the nearest of the keys offered
BucketInvariant(b, base, offered) ==
    /\ Len(b) <= BUCKET_DEFAULT_SIZE
    /\ \A i \in 1..Len(b) : \A j \in 1..Len(b) :
          i < j => Closer(base, b[i].pk, b[j].pk)
    /\ BucketPks(b) \subseteq offered
    /\ \A pk \in offered \ BucketPks(b) :
          /\ Len(b) = BUCKET_DEFAULT_SIZE
          /\ \A i \in 1..Len(b) : Closer(base, b[i].pk, pk)

\* C6: the PingSender queue, based on the server's pk, and every friend's
\* close_nodes and bootstrap_nodes, based on the friend's pk, hold at most 8
\* nodes with unique pks, sorted nearest-first by XOR distance to the base,
\* and hold the nearest of the keys offered to them since they were last
\* emptied
C6_BucketInvariant ==
    /\ BucketInvariant(ping_sender.nodes_to_send_ping, config.pk,
                       ping_sender.offered)
    /\ \A i \in 1..Len(friends) :
          /\ BucketInvariant(friends[i].close_nodes, friends[i].pk,
                             friends[i].offered_close)
          /\ BucketInvariant(friends[i].bootstrap_nodes, friends[i].pk,
                             friends[i].offered_bootstrap)

\* C6 witness: the queue and the friend's close_nodes are full and have
\* turned down or dropped a key, and bootstrap_nodes, emptied since, holds
\* a node that close_nodes has no room for
C6_Witness ==
    /\ Len(ping_sender.nodes_to_send_ping) = BUCKET_DEFAULT_SIZE
    /\ ping_sender.offered \ BucketPks(ping_sender.nodes_to_send_ping) # {}
    /\ Len(friends[1].close_nodes) = BUCKET_DEFAULT_SIZE
    /\ friends[1].offered_close \ BucketPks(friends[1].close_nodes) # {}
    /\ BucketPks(friends[1].bootstrap_nodes)
           \ BucketPks(friends[1].close_nodes) # {}

\* the nodes of the bucket b
BucketNodes(b) == {b[i] : i \in 1..Len(b)}

\* every node of the set nodes has an entry in ping_map
HaveEntries(nodes) == \A n \in nodes : ping_map[n.pk] # None

\* C7 as stated: in every state every node of the server's close_nodes and
\* of every friend's close_nodes and bootstrap_nodes has an entry in
\* ping_map, right after add_to_close included
C7_EveryListedNodeHasEntry ==
    /\ HaveEntries(close_nodes)
    /\ \A i \in 1..Len(friends) :
          /\ HaveEntries(BucketNodes(friends[i].close_nodes))
          /\ HaveEntries(BucketNodes(friends[i].bootstrap_nodes))

\* C7 amended: every node of the server's close_nodes has an entry in
\* ping_map; add_to_close leaves ping_map as it is, and the entries of the
\* nodes it lists exist once send_nodes_req_packets has run for the friend:
\* in the state this call leaves, bootstrap_nodes is empty and every node of
\* close_nodes has an entry
C7_EntryAfterMaintenance ==
    /\ [](/\ HaveEntries(close_nodes)
          /\ ret.op = "send_nodes_req_packets" =>
                \A i \in 1..Len(friends) :
                    /\ friends[i].bootstrap_nodes = <<>>
                    /\ HaveEntries(BucketNodes(friends[i].close_nodes)))
    /\ [][\A i \in 1..Len(friends) : \A node \in AllNodes :
             AddToClose(i, node) => ping_map' = ping_map]_vars

\* C7 witness: add_to_close has listed a node that has no entry in ping_map
C7_Witness ==
    /\ ret.op = "add_to_close"
    /\ \E i \in 1..Len(friends) :
          \E n \in BucketNodes(friends[i].close_nodes) : ping_map[n.pk] = None

\* C7 witness of the maintenance call: the call has created the entry of a
\* close node and sent it a request
C7_WitnessAfter ==
    /\ ret.op = "send_nodes_req_packets"
    /\ \E i \in 1..Len(friends) :
          /\ friends[i].close_nodes # <<>>
          /\ HaveEntries(BucketNodes(friends[i].close_nodes))
    /\ tx # <<>>

\* the locks held after the first i events of the log ev
HeldAfter(ev, i) ==
    {l \in {"close_nodes", "ping_map", "friends"} :
        \E j \in 1..i :
            /\ ev[j] = Lock(l)
            /\ \A k \in (j + 1)..i : ev[k] # Unlock(l)}

\* C8 as stated: try_add and send_nodes_req_packets hold at most one of
\* the locks of close_nodes, ping_map and friends at any time
C8_OneLockAtATime ==
    ret.op \in {"try_add", "send_nodes_req_packets"} =>
        \A i \in 1..Len(ret.locks) : Cardinality(HeldAfter(ret.locks, i)) <= 1

\* C9: in send_nodes_req_packets each of the three passes takes the
\* ping_map lock and releases it before the next pass takes it, and no lock
\* is held when join3 polls the futures the passes returned
C9_NoLockAcrossPoll ==
    ret.op = "send_nodes_req_packets" =>
        /\ Cardinality({i \in 1..Len(ret.locks) :
                           ret.locks[i] = Lock("ping_map")}) = 3
        /\ \A i \in 1..Len(ret.locks) :
              /\ ret.locks[i].e = "lock" => HeldAfter(ret.locks, i - 1) = {}
              /\ ret.locks[i].e = "poll" => HeldAfter(ret.locks, i) = {}

\* C9 witness: a call in which two passes created a send each, and both
\* sends were polled to completion
C9_Witness ==
    /\ ret.op = "send_nodes_req_packets"
    /\ \E i \in 1..Len(ret.locks) : ret.locks[i].e = "poll"
    /\ Len(tx) >= 2

\* C10 as stated: send_nodes_req_packets resolves to Ok(()) whatever sends
\* of the call failed
C10_AlwaysOk ==
    ret.op \in {"send_nodes_req_packets", "send_pings"} => ret.result = "Ok"

\* the step ends the session of client c with an error
SessionError(c) ==
    /\ clients[c].state \in {"handshake", "running"}
    /\ clients'[c].state = "ended"
    /\ clients'[c].result = "Err"

\* the step leaves the accept loop as it is and the session of every other
\* client than c untouched
OnlySession(c) ==
    /\ listener'.state = listener.state
    /\ \A d \in ClientIds \ {c} : clients'[d] = clients[d]

\* C11: a step in which the session of one client ends with an error (its
\* handshake, processor, reader or writer fails, or a send times out)
\* leaves the accept loop accepting if it was, and changes the session of no
\* other client
C11_SessionErrorIsLocal ==
    [][\A c \in ClientIds : SessionError(c) => OnlySession(c)]_vars

\* C11 witness: the session of one client has ended with an error, and a
\* client that was accepted after that error has completed its handshake
C11_Witness ==
    \E c \in ClientIds, d \in ClientIds :
        /\ clients[d].state = "ended" /\ clients[d].result = "Err"
        /\ clients[c].state = "running"
        /\ clients[d].cause \in clients[c].after

\* the step is the failure of the handshake of client c
HandshakeFailure(c) ==
    /\ clients[c].state = "handshake"
    /\ clients'[c].state = "ended"
    /\ clients'[c].cause = "handshake"

\* C12 as stated: a handshake failure terminates the server process
C12_HandshakeFailureTerminatesServer ==
    [][\A c \in ClientIds : HandshakeFailure(c) => ServerTerminated']_vars

\* C12 amended: a handshake failure resolves the task of that client to an
\* error before the session's processor, reader and writer exist; the
\* accept loop and the other sessions are left as they are, and the server
\* has terminated after the step only if the accept loop had ended before
C12_HandshakeFailureEndsOnlyTask ==
    [][\A c \in ClientIds : HandshakeFailure(c) =>
          /\ clients'[c].result = "Err"
          /\ clients'[c].processor = "none"
          /\ clients'[c].reader = "none"
          /\ clients'[c].writer = "none"
          /\ OnlySession(c)
          /\ ServerTerminated' => listener.state = "stopped"]_vars

\* C12 witness: the handshake of a client has failed, the accept loop still
\* accepts and the session of another client runs
C12_Witness ==
    \E c \in ClientIds, d \in ClientIds :
        /\ clients[c].cause = "handshake"
        /\ listener.state = "accepting"
        /\ clients[d].state = "running"

\* no send in flight is older than WRITER_TIMEOUT seconds
SendsWithinTimeout ==
    \A c \in ClientIds :
        (clients[c].state = "running" /\ clients[c].sending # None) =>
            now <= clients[c].sending.started + WRITER_TIMEOUT

\* the step is the timeout of the send in flight of client c
Timeout(c) ==
    /\ clients[c].state = "running"
    /\ clients'[c].state = "ended"
    /\ clients'[c].cause = "timeout"

\* C13 as stated: a send in flight for 30 seconds fails with an error that
\* ends the writer and nothing else: the processor and the reader of the
\* session, the other sessions and the accept loop are as before
C13_TimeoutEndsOnlyWriter ==
    /\ []SendsWithinTimeout
    /\ [][\A c \in ClientIds : Timeout(c) =>
             /\ clients'[c].writer = "err"
             /\ clients'[c].processor = clients[c].processor
             /\ clients'[c].reader = clients[c].reader
             /\ OnlySession(c)]_vars

\* C13 amended: no send stays in flight for more than 30 seconds; at its
\* deadline the send fails, the writer ends with an error and the task of
\* that client resolves to the error, which drops the processor and the
\* reader of the same session; the other sessions and the accept loop are
\* as before
C13_TimeoutEndsSession ==
    /\ []SendsWithinTimeout
    /\ [][\A c \in ClientIds : Timeout(c) =>
             /\ now >= clients[c].sending.started + WRITER_TIMEOUT
             /\ clients'[c].writer = "err"
             /\ clients'[c].result = "Err"
             /\ clients'[c].processor = "dropped"
             /\ clients'[c].reader = "dropped"
             /\ OnlySession(c)]_vars

\* C13 witness: a send of one client has timed out after a packet of that
\* client was written, and the session of another client runs
C13_Witness ==
    \E c \in ClientIds, d \in ClientIds :
        /\ clients[c].cause = "timeout"
        /\ clients[c].written # <<>>
        /\ clients[c].processor = "dropped"
        /\ clients[d].state = "running"

\* C14: while a session lives, the packets taken from to_client_rx are the
\* packets written, in the same order, followed by the one packet whose
\* send is in flight, if there is one
C14_WrittenInDequeueOrder ==
    \A c \in ClientIds :
        clients[c].state = "running" =>
            clients[c].dequeued =
                IF clients[c].sending = None THEN clients[c].written
                ELSE Append(clients[c].written, clients[c].sending.packet)

\* C14 witness: the writer has written the first packet and the send of
\* the second is in flight while the queue is empty again
C14_Witness ==
    \E c \in ClientIds :
        /\ clients[c].state = "running"
        /\ clients[c].written = <<1>>
        /\ clients[c].sending # None
        /\ clients[c].sending.packet = 2

\* the types whose to_bytes and from_bytes C15 is about
RoundTripTypes ==
    {"NodesRequestPayload", "NodesRequest", "OnionDataResponse",
     "DisconnectNotification", "OnionRequest"}

\* C15: from_bytes of the bytes that to_bytes wrote for a value p of one of
\* the five types is Done with p and with no input left
C15_RoundTrip ==
    \A type \in RoundTripTypes :
        (/\ codec.fn = type \o "::from_bytes"
         /\ codec.prev.fn = type \o "::to_bytes") =>
            codec.out = Done(<<>>, codec.prev.arg.value)

\* C15 witness: an OnionRequest with an IPv4 address, which to_bytes pads,
\* has been written and parsed again
C15_Witness ==
    /\ codec.fn = "OnionRequest::from_bytes"
    /\ codec.prev.fn = "OnionRequest::to_bytes"
    /\ codec.prev.arg.value.ip_port.ip_addr.family = "V4"
    /\ codec.prev.arg.value.payload # <<>>
    /\ IsDone(codec.out)

\* C16 as stated: each of the parsers returns Some or None for every byte
\* string and never panics
C16_ParsersNeverPanic ==
    codec.fn \in {"SendNodes::from_bytes", "PackedNode::from_bytes",
                  "PackedNode::from_bytes_multiple", "DhtPacket::from_bytes",
                  "DhtPacket::get_packet", "SectionKind::from_bytes"} =>
        (IsSome(codec.out) \/ codec.out = None)

\* C17 as stated: NodesRequestPayload::from_bytes accepts inputs of exactly
\* 40 bytes only, get_payload fails on every other decrypted length, and
\* the Ping, GetNodes and SendNodes parsers reject an input that is longer
\* than the payload they parse
C17_TrailingBytesRejected ==
    /\ codec.fn = "NodesRequestPayload::from_bytes" =>
          (IsDone(codec.out) <=> Len(codec.arg.bytes) = PUBLICKEYBYTES + 8)
    /\ (codec.fn = "NodesRequest::get_payload" /\ IsOk(codec.out)) =>
          Len(codec.arg.value.payload) = MACBYTES + PUBLICKEYBYTES + 8
    /\ (codec.fn = "Ping::from_bytes" /\ Len(codec.arg.bytes) > PING_SIZE) =>
          codec.out = None
    /\ (codec.fn = "GetNodes::from_bytes"
        /\ Len(codec.arg.bytes) > GET_NODES_SIZE) => codec.out = None
    /\ (codec.fn = "SendNodes::from_bytes" /\ IsSome(codec.out)) =>
          Len(codec.arg.bytes) = Len(SendNodes_as_bytes(codec.out.some))

\* whether bytes begin as an OnionDataResponse: the kind byte, and room for
\* the nonce and the temporary pk
OnionDataResponseWellFormed(bytes) ==
    /\ Len(bytes) >= 1 + NONCEBYTES + PUBLICKEYBYTES
    /\ bytes[1] = 134

\* C18: OnionDataResponse::from_bytes rejects every input of more than 1400
\* bytes and accepts a well-formed input of 1400 bytes; to_bytes returns at
\* most 1400 bytes and fails for a packet that needs more
C18_OnionSizeLimit ==
    /\ codec.fn = "OnionDataResponse::from_bytes" =>
          /\ Len(codec.arg.bytes) > ONION_MAX_PACKET_SIZE => ~IsDone(codec.out)
          /\ (/\ Len(codec.arg.bytes) = ONION_MAX_PACKET_SIZE
              /\ OnionDataResponseWellFormed(codec.arg.bytes)) =>
                 IsDone(codec.out)
    /\ codec.fn = "OnionDataResponse::to_bytes" =>
          /\ IsOk(codec.out) => Len(codec.out.ok) <= ONION_MAX_PACKET_SIZE
          /\ 1 + NONCEBYTES + PUBLICKEYBYTES + Len(codec.arg.value.payload)
                 > ONION_MAX_PACKET_SIZE => ~IsOk(codec.out)

\* C18 witness: to_bytes has written a packet of 1400 bytes and from_bytes
\* has accepted it
C18_Witness ==
    /\ codec.fn = "OnionDataResponse::from_bytes"
    /\ codec.prev.fn = "OnionDataResponse::to_bytes"
    /\ Len(codec.arg.bytes) = ONION_MAX_PACKET_SIZE
    /\ IsDone(codec.out)

\* C18 witness of the rejections: from_bytes has rejected a well-formed
\* input of 1401 bytes
C18_WitnessRejected ==
    /\ codec.fn = "OnionDataResponse::from_bytes"
    /\ Len(codec.arg.bytes) = ONION_MAX_PACKET_SIZE + 1
    /\ OnionDataResponseWellFormed(codec.arg.bytes)
    /\ ~IsDone(codec.out)

\* C19: SendNodes::from_request returns None for 0 nodes and for more than
\* 4 nodes, and otherwise a SendNodes with the given nodes and the id of
\* the request
C19_FromRequest ==
    codec.fn = "SendNodes::from_request" =>
        IF Len(codec.arg.nodes) = 0 \/ Len(codec.arg.nodes) > 4
        THEN codec.out = None
        ELSE codec.out = Some([nodes |-> codec.arg.nodes,
                               id |-> codec.arg.request.id])

\* C19 witness: from_request has returned a SendNodes with four nodes
C19_Witness ==
    /\ codec.fn = "SendNodes::from_request"
    /\ Len(codec.arg.nodes) = 4
    /\ IsSome(codec.out)

\* C19 witness of the upper limit: from_request has refused five nodes
C19_WitnessRefused ==
    /\ codec.fn = "SendNodes::from_request"
    /\ Len(codec.arg.nodes) = 5
    /\ codec.out = None

\* whether a is a prefix of b
IsPrefix(a, b) == Len(a) <= Len(b) /\ a = SubSeq(b, 1, Len(a))

\* C20 as stated: a SendNodes that from_bytes returned has as many nodes as
\* the count byte says, its id is the 8 bytes after the last of these
\* nodes, and as_bytes of it is a prefix of the input
C20_CountByteMatches ==
    (codec.fn = "SendNodes::from_bytes" /\ IsSome(codec.out)) =>
        /\ Len(codec.out.some.nodes) = codec.arg.bytes[1]
        /\ codec.out.some.id =
               array_to_u64(Slice(codec.arg.bytes,
                   1 + Len(NodesAsBytes(codec.out.some.nodes)),
                   9 + Len(NodesAsBytes(codec.out.some.nodes))))
        /\ IsPrefix(SendNodes_as_bytes(codec.out.some), codec.arg.bytes)

\* ---------------------------------------------------------------------
\* C21: every PackedNode that PackedNode::new builds or that
\* PackedNode::from_bytes parses has an ip_type of the family of its socket
\* address, and serializes to 39 bytes for U4 and T4 and to 51 bytes for U6
\* and T6.
FamilyOf(ip_type) == IF ip_type \in {"U4", "T4"} THEN "V4" ELSE "V6"

C21_FamilyMatches ==
    /\ codec.fn \in {"PackedNode::new", "PackedNode::from_bytes"}
       /\ IsSome(codec.out)
       => FamilyOf(codec.out.some.ip_type) = codec.out.some.socketaddr.ip.family
    /\ codec.fn = "PackedNode::as_bytes"
       => Len(codec.out.ok) = PackedNodeSize(codec.arg.value)
\* ---------------------------------------------------------------------
\* the nodes queued in nodes_to_send_ping
QueuedNodes == {ping_sender.nodes_to_send_ping[i] :
                   i \in 1..Len(ping_sender.nodes_to_send_ping)}

\* the step issues exactly one PingRequest to every node of nodes and none
\* to another node: each of their ping_map entries gets one more pending id,
\* no other entry changes, and the outbound queue gets no packet but the
\* PingRequests to nodes, one each at most (a send may fail)
OnePingRequestEach(nodes) ==
    /\ \A n \in nodes :
          Cardinality(Pending(ping_map', n.pk)) =
              Cardinality(Pending(ping_map, n.pk)) + 1
    /\ \A pk \in DOMAIN ping_map :
          pk \notin {n.pk : n \in nodes} => ping_map'[pk] = ping_map[pk]
    /\ \A i \in 1..Len(tx') :
          /\ tx'[i].kind = "PingRequest"
          /\ tx'[i].node \in nodes
          /\ \A j \in 1..Len(tx') : tx'[j].node = tx'[i].node => j = i

\* C22: send_pings sends no packet and leaves the queue and
\* last_time_send_ping unchanged when less than iterate_interval has elapsed
\* since last_time_send_ping (the last flush, or the creation of the
\* PingSender); otherwise it sends exactly one PingRequest to each queued
\* node, leaves the queue empty and sets last_time_send_ping to now
C22_SendPingsFlush ==
    [][\A ii \in Durations :
          (/\ ret'.op = "send_pings"
           /\ SendPings(ii)) =>
              IF now - ping_sender.last_time_send_ping < ii
              THEN /\ tx' = <<>>
                   /\ ping_sender' = ping_sender
                   /\ ping_map' = ping_map
              ELSE /\ ping_sender'.nodes_to_send_ping = <<>>
                   /\ ping_sender'.last_time_send_ping = now
                   /\ OnePingRequestEach(QueuedNodes)]_vars

\* C22 witness: a flush later than the creation of the PingSender has sent
\* a PingRequest to each of two queued nodes and emptied the queue
C22_Witness ==
    /\ ret.op = "send_pings"
    /\ Len(tx) = 2
    /\ tx[1].node.pk # tx[2].node.pk
    /\ ping_sender.nodes_to_send_ping = <<>>
    /\ ping_sender.last_time_send_ping = now
    /\ now > 0

\* ---------------------------------------------------------------------
\* last_ping_req_time of the ping_map entry of pk in pm; an entry that is
\* absent is created by the pass, with the time of the call
LastPingReqTime(pm, pk) ==
    IF pm[pk] = None THEN now ELSE pm[pk].last_ping_req_time

\* the NodesRequests that the close-node pass of friends[fi] issues in a call
\* of send_nodes_req_packets with ping_interval: the send futures that the
\* pass adds to those of the bootstrap pass before it
CloseNodesPassSent(fi, ping_interval) ==
    LET c1 == PingBootstrapNodes(NewContext, friends[fi], now)
        c2 == PingAndGetCloseNodes(c1, BootstrapNodesTaken(friends[fi]),
                                   ping_interval, now)
    IN  SubSeq(c2.out, Len(c1.out) + 1, Len(c2.out))

\* C23: in the close-node pass of a friend a NodesRequest searching
\* friend.pk is issued to a close node, once, if and only if at least
\* ping_interval has elapsed since last_ping_req_time of the node's ping_map
\* entry, and issuing it sets that last_ping_req_time to now; otherwise the
\* stamp is unchanged, so two such requests to one node are at least
\* ping_interval apart
C23_PeriodicRequestWhenDue ==
    [][\A fi \in 1..Len(friends) : \A pi \in Durations, ni \in Durations,
            bt \in Durations :
          (/\ ret'.op = "send_nodes_req_packets"
           /\ SendNodesReqPackets(fi, pi, ni, bt)) =>
              LET sent == CloseNodesPassSent(fi, pi)
              IN  /\ \A i \in 1..Len(sent) :
                        /\ sent[i].kind = "NodesRequest"
                        /\ sent[i].search_pk = friends[fi].pk
                        /\ BucketContains(friends[fi].close_nodes,
                                          sent[i].node.pk)
                        /\ \A j \in 1..Len(sent) :
                              sent[j].node.pk = sent[i].node.pk => j = i
                  /\ \A k \in 1..Len(friends[fi].close_nodes) :
                        LET n    == friends[fi].close_nodes[k]
                            last == LastPingReqTime(ping_map, n.pk)
                        IN  IF now - last >= pi
                            THEN /\ \E i \in 1..Len(sent) : sent[i].node = n
                                 /\ ping_map'[n.pk].last_ping_req_time = now
                            ELSE /\ \A i \in 1..Len(sent) : sent[i].node # n
                                 /\ ping_map'[n.pk].last_ping_req_time = last]_vars

\* C23 witness: a close node whose entry was created at time 0 and that has
\* not answered since has been sent a NodesRequest searching the friend's pk
\* at a later time, which is now its last_ping_req_time
C23_Witness ==
    /\ ret.op = "send_nodes_req_packets"
    /\ now > 0
    /\ \E fi \in 1..Len(friends) : \E i \in 1..Len(tx) :
          /\ tx[i].kind = "NodesRequest"
          /\ tx[i].search_pk = friends[fi].pk
          /\ BucketContains(friends[fi].close_nodes, tx[i].node.pk)
          /\ friends[fi].random_sent = 0
          /\ ping_map[tx[i].node.pk].last_resp_time = 0
          /\ ping_map[tx[i].node.pk].last_ping_req_time = now

\* ---------------------------------------------------------------------
\* last_resp_time of the ping_map entry of pk in pm; an entry that is absent
\* is created by the good-node filter, with the time of the call
LastRespTime(pm, pk) ==
    IF pm[pk] = None THEN now ELSE pm[pk].last_resp_time

\* the close nodes of friends[fi] that are good for bad_node_timeout
GoodCloseNodes(fi, bad_node_timeout) ==
    {friends[fi].close_nodes[k] : k \in
        {k \in 1..Len(friends[fi].close_nodes) :
            now - LastRespTime(ping_map, friends[fi].close_nodes[k].pk)
                < bad_node_timeout}}

\* the context that the bootstrap pass and the close-node pass of
\* friends[fi] leave in a call of send_nodes_req_packets
ContextBeforeRandom(fi, ping_interval) ==
    PingAndGetCloseNodes(PingBootstrapNodes(NewContext, friends[fi], now),
                         BootstrapNodesTaken(friends[fi]), ping_interval, now)

\* the NodesRequests that the random pass of friends[fi] issues after them
\* when random_u32() returns rand1 and then rand2: the send futures that the
\* pass adds to those of context c2
RandomPassSent(fi, c2, nodes_req_interval, bad_node_timeout, rand1, rand2) ==
    LET c3 == SendNodesReqRandom(c2, BootstrapNodesTaken(friends[fi]),
                                 bad_node_timeout, nodes_req_interval,
                                 rand1, rand2, now)
    IN  SubSeq(c3.out, Len(c2.out) + 1, Len(c3.out))

\* C24: send_nodes_req_random issues at most one NodesRequest per call, only
\* when at least nodes_req_interval has elapsed since the friend's
\* last_nodes_req_time, and only to a close node of the friend that is good
\* (now - last_resp_time < bad_node_timeout); when no close node is good it
\* issues nothing and changes neither bootstrap_times nor
\* last_nodes_req_time
C24_RandomRequest ==
    [][\A fi \in 1..Len(friends) : \A pi \in Durations, ni \in Durations,
            bt \in Durations :
          (/\ ret'.op = "send_nodes_req_packets"
           /\ SendNodesReqPackets(fi, pi, ni, bt)) =>
              \A good \in {GoodCloseNodes(fi, bt)} :
                  /\ (\/ good = {}
                      \/ now - friends[fi].last_nodes_req_time < ni) =>
                        /\ friends'[fi].bootstrap_times =
                               friends[fi].bootstrap_times
                        /\ friends'[fi].last_nodes_req_time =
                               friends[fi].last_nodes_req_time
                  /\ \A c2 \in {ContextBeforeRandom(fi, pi)} :
                     \A r1 \in Rands, r2 \in Rands :
                     \A sent \in {RandomPassSent(fi, c2, ni, bt, r1, r2)} :
                        /\ Len(sent) <= 1
                        /\ Len(sent) = 1 =>
                              /\ now - friends[fi].last_nodes_req_time >= ni
                              /\ sent[1].kind = "NodesRequest"
                              /\ sent[1].search_pk = friends[fi].pk
                              /\ sent[1].node \in good
                        /\ good = {} => sent = <<>>]_vars

\* C24 witness: later than its creation a friend has sent a random
\* NodesRequest to a close node that answered at the time of the call
C24_Witness ==
    /\ ret.op = "send_nodes_req_packets"
    /\ now > 0
    /\ \E fi \in 1..Len(friends) :
          /\ friends[fi].random_sent >= 1
          /\ friends[fi].last_nodes_req_time = now
          /\ tx # <<>>
          /\ tx[Len(tx)].kind = "NodesRequest"
          /\ tx[Len(tx)].search_pk = friends[fi].pk
          /\ BucketContains(friends[fi].close_nodes, tx[Len(tx)].node.pk)
          /\ ping_map[tx[Len(tx)].node.pk].last_resp_time = now

\* ---------------------------------------------------------------------
\* C25: the bootstrap pass of a friend issues exactly one NodesRequest
\* searching friend.pk to every node that was in bootstrap_nodes, whatever
\* ping_interval is, and leaves bootstrap_nodes empty; a node gets into
\* bootstrap_nodes, and so gets a bootstrap request again, only by
\* add_to_close
C25_BootstrapPass ==
    [][/\ \A fi \in 1..Len(friends) : \A pi \in Durations, ni \in Durations,
             bt \in Durations :
           (/\ ret'.op = "send_nodes_req_packets"
            /\ SendNodesReqPackets(fi, pi, ni, bt)) =>
               \A sent \in {PingBootstrapNodes(NewContext, friends[fi], now).out} :
                  /\ Len(sent) = Len(friends[fi].bootstrap_nodes)
                  /\ \A k \in 1..Len(sent) :
                        /\ sent[k].kind = "NodesRequest"
                        /\ sent[k].search_pk = friends[fi].pk
                        /\ sent[k].node = friends[fi].bootstrap_nodes[k]
                        /\ \A j \in 1..Len(sent) :
                              sent[j].node.pk = sent[k].node.pk => j = k
                        /\ \E e \in Pending(ping_map', sent[k].node.pk) :
                              e = <<sent[k].id, now>>
                  /\ friends'[fi].bootstrap_nodes = <<>>
       /\ \A fi \in 1..Len(friends) :
           (/\ Len(friends') >= fi
            /\ \E k \in 1..Len(friends'[fi].bootstrap_nodes) :
                  ~BucketContains(friends[fi].bootstrap_nodes,
                                  friends'[fi].bootstrap_nodes[k].pk)) =>
               ret'.op = "add_to_close"]_vars

\* C25 witness: later than their entries were created a friend has sent a
\* NodesRequest searching its pk to each of its two bootstrap nodes, which
\* were not due for a periodic request, and its bootstrap_nodes is empty
C25_Witness ==
    /\ ret.op = "send_nodes_req_packets"
    /\ now > 0
    /\ \E fi \in 1..Len(friends) :
          /\ friends[fi].bootstrap_nodes = <<>>
          /\ friends[fi].random_sent = 0
          /\ Len(tx) = 2
          /\ tx[1].node.pk # tx[2].node.pk
          /\ \A i \in 1..2 :
                /\ tx[i].kind = "NodesRequest"
                /\ tx[i].search_pk = friends[fi].pk
                /\ ping_map[tx[i].node.pk].last_ping_req_time < now

\* ---------------------------------------------------------------------
\* the three futures of a session
SessionParts == {"processor", "reader", "writer"}

\* C26: a session ends as soon as one of its processor, reader and writer
\* finishes with an error: the two others are dropped with it, and from then
\* on nothing of the session changes: no packet is queued by the processor,
\* taken or written by the writer, and no future of it completes
C26_ErrorEndsSession ==
    /\ [](\A c \in ClientIds : \A part \in SessionParts :
             clients[c][part] = "err" =>
                /\ clients[c].state = "ended"
                /\ clients[c].result = "Err"
                /\ \A other \in SessionParts \ {part} :
                      clients[c][other] = "dropped")
    /\ [][\A c \in ClientIds :
             clients[c].state = "ended" => clients'[c] = clients[c]]_vars

\* C26 witness: the reader of a session has failed while a send was in
\* flight and a packet was waiting on to_client_rx; processor and writer are
\* dropped, the send is not completed and the packet is not taken
C26_Witness ==
    \E c \in ClientIds :
        /\ clients[c].state = "ended"
        /\ clients[c].reader = "err"
        /\ clients[c].processor = "dropped"
        /\ clients[c].writer = "dropped"
        /\ clients[c].sending # None
        /\ clients[c].to_client_rx # <<>>
        /\ clients[c].written = <<>>
        /\ now > 0

\* ---------------------------------------------------------------------
\* C27: after the maintenance round of a tick, every friend has sent every
\* node of its close_nodes a periodic NodesRequest within the last
\* ping_interval plus one tick, also when the node is a close node of
\* another friend
C27_PeriodicWithinWindow ==
    (/\ rounds.round_at = now
     /\ now >= config.ping_interval + 1) =>
        \A fi \in 1..Len(friends) :
            \A k \in 1..Len(friends[fi].close_nodes) :
                rounds.last[fi][friends[fi].close_nodes[k].pk]
                    >= now - (config.ping_interval + 1)

\* C28: DhtPacket::get_packet returns only a payload whose as_type() is the
\* kind of the outer packet: a packet of kind PingResp never yields a Ping
\* request, and a packet of kind PingReq never yields a Ping response.
C28_PayloadKindIsOuterKind ==
    (/\ codec.fn = "DhtPacket::get_packet"
     /\ IsSome(codec.out)) =>
        DPacketT_as_type(codec.out.some) = codec.arg.value.packet_type

\* C29: send_nodes_req_random never returns the error "Can't find client in
\* ping_map": the filter that builds good_nodes has created the ping_map
\* entry of every close node under the same write lock, so the lookup of
\* the node picked finds it.
C29_ClientAlwaysFound ==
    ret.op = "send_nodes_req_random" => ret.result # ClientNotFound

\* a call that picked a node whose ping_map entry the filter of the same
\* call created, and sent it the request
C29_Witness ==
    /\ ret.op = "send_nodes_req_random"
    /\ ret.created
    /\ ret.result \in {"Ok", "Err"}
    /\ \E i \in 1..Len(friends[1].close_nodes) :
          /\ ping_map[friends[1].close_nodes[i].pk] # None
          /\ ping_map[friends[1].close_nodes[i].pk].ping_ids # {}

\* C30: the index r = rand1 % n, lowered by rand2 % (r + 1) when r # 0, is
\* in [0, n): the subtraction never goes below 0 and the result never
\* exceeds the first r; and every index of good_nodes can be picked.
C30_RandomIndexInRange ==
    (ret.op = "send_nodes_req_random" /\ ret.random_node # -1) =>
        /\ 0 <= ret.random_node
        /\ ret.random_node < ret.num_nodes
        /\ ret.random_node <= ret.first
        /\ \A i \in 0..(ret.num_nodes - 1) :
              \E r1 \in RandomDraws, r2 \in RandomDraws :
                  RandomNode(ret.num_nodes, r1, r2) = i

\* a call with three good nodes whose first draw gave the last index and
\* whose second draw lowered it
C30_Witness ==
    /\ ret.op = "send_nodes_req_random"
    /\ ret.num_nodes = 3
    /\ ret.first = 2
    /\ ret.random_node = 1

====
